---- MODULE Spec2Model ----
(***************************************************************************)
(* Verification model of the Readout core: the per-equipment producer loop *)
(* (ReadoutEquipment), the FairMQ subtimeframe dispatcher                   *)
(* (ConsumerFMQchannel) and the ownership of memory pages                   *)
(* (DataBlockContainer).  Each subsystem is one object of the program and  *)
(* one variable of the model, a record of the object's fields and of the   *)
(* positions of its threads; each has its own specification.               *)
(***************************************************************************)
EXTENDS Integers, Sequences, FiniteSets, TLC

VARIABLES
  eq,      \* a ReadoutEquipment, its readout thread, pool and output FIFO
  now,     \* the monotonic clock read by the equipment timers, in ticks
  rq,      \* a ReadoutEquipment reading RDH data: the block it is handling
  fm,      \* a dataset and the message DDformatMessage / pushData built of it
  cx,      \* a ConsumerFMQchannel with its worker threads and sender thread
  pg,      \* the pages of a pool and the handles and message parts on them
  fq,      \* the page accounting: the stats of each block and the counters
  db       \* a ReadoutDatabase and the call of query() in progress

vars == << eq, now, rq, fm, cx, pg, fq, db >>

\* the value of an object that a specification does not use
Unused == << >>

----------------------------------------------------------------------------
(* Bounds of the model *)
NumPages == 2        \* memoryPoolNumberOfPages
FifoSize == 1        \* outputFifoSize, when the configuration sets one
MaxReady == 4        \* blocks the data source can have waiting
MaxLoop == 4         \* iterations of threadCallback per lifetime
MaxRuns == 2         \* start() calls per lifetime
MaxTime == 4         \* clock ticks
RatePeriod == 1      \* 1e6/readoutRate, in ticks
WindowMin == 2       \* a window is "much larger than 1/rate" from WindowMin periods on

(* Program constants *)
DefaultMaxBlocks == 1024
undefinedTimeframeId == 0
undefinedBlockId == 0

Min(a, b) == IF a < b THEN a ELSE b
Max(a, b) == IF a > b THEN a ELSE b

\* C truncation of a quotient towards zero (double -> int conversion)
TruncDiv(x, d) == IF x >= 0 THEN x \div d ELSE -((-x) \div d)
\* ceil(x / d) for x >= 0
CeilDiv(x, d) == (x + d - 1) \div d

----------------------------------------------------------------------------
(* AliceO2::Common::Fifo as used by the equipment and the dispatcher *)
FifoIsFull(q, size) == Len(q) >= size
FifoIsEmpty(q) == Len(q) = 0

(* AliceO2::Common::Timer as used for clk and clk0 *)
TimerIsTimeout(t0, period) == now - t0 >= period
TimerGetTime(t0) == now - t0

----------------------------------------------------------------------------
(* ReadoutEquipment *)

NoBlock == [blockId |-> -1, timeframeId |-> -1, run |-> -1, at |-> -1]
BlankPage(run) == [blockId |-> undefinedBlockId, timeframeId |-> undefinedTimeframeId,
                   run |-> run, at |-> now]

ZeroStats == [nBlocksOut |-> 0, nOutputFull |-> 0, nThrottle |-> 0,
              nLoop |-> 0, nIdle |-> 0, poolEmpty |-> 0]

\* the equipment after its constructor
\* cfgOutputFifoSize: -1 stands for the number of pages of the pool
OutputFifoSize(cfg) == IF cfg = -1 THEN NumPages ELSE cfg

EqCreated(rateOn, noOutput, swClock, cfgFifo) ==
  [ running |-> FALSE,          \* readoutThread started
    stopping |-> FALSE,         \* stop() called, join() not yet returned
    runNo |-> 0,                \* start() calls so far
    isDataOn |-> FALSE,
    currentBlockId |-> undefinedBlockId,
    currentTimeframe |-> undefinedTimeframeId,
    readoutRateOn |-> rateOn,   \* readoutRate > 0
    disableOutput |-> noOutput,
    usingSoftwareClock |-> swClock,
    dataOut |-> << >>,          \* output FIFO
    fifoSize |-> OutputFifoSize(cfgFifo),
    poolFree |-> NumPages,      \* free pages of mp
    ready |-> 0,                \* blocks the subclass has waiting for getNextBlock()
    held |-> 0,                 \* pages popped by getBlock(), not yet released
    pc |-> "idle",              \* position of the readout thread
    nextBlock |-> NoBlock,
    loopIx |-> 0,
    maxBlocksToRead |-> 0,
    nPushedOut |-> 0,
    stats |-> ZeroStats,
    nLoopLife |-> 0,            \* iterations over the lifetime (bounds the model)
    clk0 |-> 0,
    clkT0 |-> 0,
    emitLog |-> << >>,          \* history: every page stamped by the loop
    prepared |-> FALSE,         \* history: the last iteration called prepareBlocks()
    takenOff |-> FALSE,         \* history: a block was taken while data was off
    lostPages |-> 0 ]           \* history: pages whose push to dataOut failed

\* currentBlockId = 0 in start()
BlockIdAtStartKeep(id) == id
BlockIdAtStart(id) == 0

\* start(): reset counters, block id, data flag and clocks, start the thread
EqStart ==
  /\ ~eq.running /\ eq.runNo < MaxRuns
  /\ eq' = [eq EXCEPT !.running = TRUE, !.stopping = FALSE, !.runNo = @ + 1,
                      !.stats = ZeroStats,
                      !.currentBlockId = BlockIdAtStart(@),
                      !.isDataOn = FALSE,
                      !.prepared = FALSE, !.takenOff = FALSE,
                      !.currentTimeframe = undefinedTimeframeId,
                      !.clkT0 = now, !.clk0 = now]
  /\ UNCHANGED << now, rq, fm, cx, pg, fq, db >>

\* stop(), first part: isDataOn = false, readoutThread->stop()
EqStopRequest ==
  /\ eq.running /\ ~eq.stopping
  /\ eq' = [eq EXCEPT !.isDataOn = FALSE, !.stopping = TRUE]
  /\ UNCHANGED << now, rq, fm, cx, pg, fq, db >>

\* stop(), second part: readoutThread->join() returns once the callback is out
EqStopJoin ==
  /\ eq.running /\ eq.stopping /\ eq.pc = "idle"
  /\ eq' = [eq EXCEPT !.running = FALSE, !.stopping = FALSE]
  /\ UNCHANGED << now, rq, fm, cx, pg, fq, db >>

EqSetDataOn ==
  /\ eq.running /\ ~eq.stopping /\ ~eq.isDataOn
  /\ eq' = [eq EXCEPT !.isDataOn = TRUE]
  /\ UNCHANGED << now, rq, fm, cx, pg, fq, db >>

EqSetDataOff ==
  /\ eq.running /\ ~eq.stopping /\ eq.isDataOn
  /\ eq' = [eq EXCEPT !.isDataOn = FALSE]
  /\ UNCHANGED << now, rq, fm, cx, pg, fq, db >>

\* the budget of one iteration: readoutRate * clk0.getTime() - nBlocksOut as an int
\* when a rate is set, 1024 otherwise
RateBudgetAlways1024(rateOn, elapsed, nOut) == DefaultMaxBlocks
RateBudget(rateOn, elapsed, nOut) ==
  IF rateOn THEN TruncDiv(elapsed - nOut * RatePeriod, RatePeriod)
            ELSE DefaultMaxBlocks

\* "target block rate exceeded, wait a bit"
ThrottledNever(rateOn, budget, nOut) == FALSE
Throttled(rateOn, budget, nOut) ==
  rateOn /\ ~TimerIsTimeout(eq.clkT0, RatePeriod) /\ nOut # 0 /\ budget <= 0

\* threadCallback, from its entry to the throttle decision.  tfTick is
\* timeframeClock.isTimeout() of the software clock.
EqIterBegin ==
  /\ eq.running /\ eq.pc = "idle" /\ eq.nLoopLife < MaxLoop
  /\ \E tfTick \in (IF eq.usingSoftwareClock THEN BOOLEAN ELSE {FALSE}) :
       LET tf == IF tfTick THEN eq.currentTimeframe + 1 ELSE eq.currentTimeframe
           budget == RateBudget(eq.readoutRateOn, TimerGetTime(eq.clk0),
                                eq.stats.nBlocksOut)
       IN IF Throttled(eq.readoutRateOn, budget, eq.stats.nBlocksOut)
          THEN eq' = [eq EXCEPT !.currentTimeframe = tf,
                                !.nLoopLife = @ + 1,
                                !.stats.nLoop = @ + 1,
                                !.stats.nThrottle = @ + 1,
                                !.stats.nIdle = @ + 1]
          ELSE eq' = [eq EXCEPT !.currentTimeframe = tf,
                                !.nLoopLife = @ + 1,
                                !.stats.nLoop = @ + 1,
                                !.pc = "loop",
                                !.maxBlocksToRead = budget,
                                !.loopIx = 0, !.nPushedOut = 0]
  /\ UNCHANGED << now, rq, fm, cx, pg, fq, db >>

\* what the loop does on a full output FIFO: count it (and leave the loop)
OnOutputFullNoCount(s) == s
OnOutputFull(s) == [s EXCEPT !.nOutputFull = @ + 1]

\* dataOut->isFull(), the test that precedes getNextBlock()
OutputIsFullNever(q) == FALSE
OutputIsFull(q) == FifoIsFull(q, eq.fifoSize)

\* for (i < maxBlocksToRead): the loop test and the isFull() test
EqLoopCheck ==
  /\ eq.pc = "loop"
  /\ eq' = IF eq.loopIx >= eq.maxBlocksToRead
             THEN [eq EXCEPT !.pc = "post"]
             ELSE IF OutputIsFull(eq.dataOut)
               THEN [eq EXCEPT !.pc = "post", !.stats = OnOutputFull(@)]
               ELSE [eq EXCEPT !.pc = "get"]
  /\ UNCHANGED << now, rq, fm, cx, pg, fq, db >>

\* ptr->currentBlockId++
NextBlockIdKeep(id) == id
NextBlockId(id) == id + 1

\* stamping of a page taken from getNextBlock(): the block id, then the current
\* timeframe id if the page has none
StampBlock(b, id, tf) ==
  [b EXCEPT !.blockId = id,
            !.timeframeId = IF @ = undefinedTimeframeId THEN tf ELSE @]

\* the subclass's getNextBlock(): a block when the source has one waiting and
\* the pool has a free page for it; an empty pool is counted by the pool
GetNextBlock(e) ==
  IF e.ready = 0 THEN [e EXCEPT !.nextBlock = NoBlock]
  ELSE IF e.poolFree = 0
    THEN [e EXCEPT !.nextBlock = NoBlock, !.stats.poolEmpty = @ + 1]
    ELSE [e EXCEPT !.ready = @ - 1, !.poolFree = @ - 1,
                   !.nextBlock = BlankPage(e.runNo)]

\* getNextBlock() and the tagging of the page it returned
EqGetNext ==
  /\ eq.pc = "get"
  /\ LET e1 == GetNextBlock(eq)
     IN eq' = IF e1.nextBlock = NoBlock
                THEN [e1 EXCEPT !.pc = "post"]      \* nextBlock == nullptr: break
                ELSE LET id == NextBlockId(e1.currentBlockId)
                         b == StampBlock(e1.nextBlock, id, e1.currentTimeframe)
                     IN [e1 EXCEPT !.currentBlockId = id,
                                   !.nextBlock = b,
                                   !.clkT0 = IF e1.readoutRateOn THEN @ + RatePeriod ELSE @,
                                   !.nPushedOut = @ + 1,
                                   !.emitLog = Append(@, b),
                                   !.takenOff = @ \/ ~e1.isDataOn,
                                   !.pc = "push"]
  /\ UNCHANGED << now, rq, fm, cx, pg, fq, db >>

\* dataOut->push(nextBlock) unless disableOutput; the handle held by the loop is
\* dropped at the end of the loop body
EqPush ==
  /\ eq.pc = "push"
  /\ eq' = IF eq.disableOutput
             THEN [eq EXCEPT !.poolFree = @ + 1, !.nextBlock = NoBlock,
                             !.loopIx = @ + 1, !.pc = "loop"]
             ELSE IF FifoIsFull(eq.dataOut, eq.fifoSize)
               THEN [eq EXCEPT !.poolFree = @ + 1, !.lostPages = @ + 1,
                               !.nextBlock = NoBlock,
                               !.loopIx = @ + 1, !.pc = "loop"]
               ELSE [eq EXCEPT !.dataOut = Append(@, eq.nextBlock),
                               !.nextBlock = NoBlock,
                               !.loopIx = @ + 1, !.pc = "loop"]
  /\ UNCHANGED << now, rq, fm, cx, pg, fq, db >>

\* the subclass's prepareBlocks(): the source gets new blocks ready (Ok) or
\* has nothing new (Idle)
PrepareBlocks(e, n) == [e EXCEPT !.ready = Max(@, n)]

\* if (ptr->isDataOn), and a test that always passes
DataIsOnAlways(e) == TRUE
DataIsOn(e) == e.isDataOn

\* end of the iteration: nBlocksOut += nPushedOut, prepareBlocks() if data is on
EqPost ==
  /\ eq.pc = "post"
  /\ \E n \in {0, MaxReady} :
       LET e1 == [eq EXCEPT !.stats.nBlocksOut = @ + eq.nPushedOut, !.pc = "idle",
                            !.prepared = DataIsOn(eq)]
       IN eq' = IF DataIsOn(eq) THEN PrepareBlocks(e1, n) ELSE e1
  /\ UNCHANGED << now, rq, fm, cx, pg, fq, db >>

\* getBlock(): the consumer of the FIFO pops one page
EqGetBlock ==
  /\ ~FifoIsEmpty(eq.dataOut)
  /\ eq' = [eq EXCEPT !.dataOut = Tail(@), !.held = @ + 1]
  /\ UNCHANGED << now, rq, fm, cx, pg, fq, db >>

\* the last handle of a popped page is dropped: the page returns to the pool
EqRelease ==
  /\ eq.held > 0
  /\ eq' = [eq EXCEPT !.held = @ - 1, !.poolFree = @ + 1]
  /\ UNCHANGED << now, rq, fm, cx, pg, fq, db >>

\* time passes
Tick ==
  /\ now < MaxTime
  /\ now' = now + 1
  /\ UNCHANGED << eq, rq, fm, cx, pg, fq, db >>

EqThread == EqIterBegin \/ EqLoopCheck \/ EqGetNext \/ EqPush \/ EqPost
EqControl == EqStart \/ EqStopRequest \/ EqStopJoin \/ EqSetDataOn \/ EqSetDataOff
EqConsumer == EqGetBlock \/ EqRelease

\* the equipment without a rate limit
InitEq ==
  /\ now = 0 /\ db = Unused /\ fq = Unused /\ rq = Unused /\ fm = Unused /\ cx = Unused /\ pg = Unused
  /\ \E d \in BOOLEAN, f \in {-1, FifoSize} : eq = EqCreated(FALSE, d, FALSE, f)
NextEq == EqThread \/ EqControl \/ EqConsumer
SpecEq == InitEq /\ [][NextEq]_vars

\* the equipment with readoutRate > 0
InitRate ==
  /\ now = 0 /\ db = Unused /\ fq = Unused /\ rq = Unused /\ fm = Unused /\ cx = Unused /\ pg = Unused
  /\ eq = EqCreated(TRUE, FALSE, FALSE, -1)
NextRate == EqThread \/ EqControl \/ EqConsumer \/ Tick
SpecRate == InitRate /\ [][NextRate]_vars

\* the equipment under a fair scheduler: the readout thread and the consumer of
\* the FIFO keep running
SpecEqFair == InitEq /\ [][NextEq]_vars /\ WF_vars(EqThread) /\ WF_vars(EqConsumer)

----------------------------------------------------------------------------
(* Properties of the equipment *)

\* the pages stamped during run r, in the order they were taken
RunLog(r) == SelectSeq(eq.emitLog, LAMBDA b : b.run = r)

\* every page is in exactly one place
EqPagesAccounted ==
  eq.poolFree + Len(eq.dataOut) + eq.held
    + (IF eq.nextBlock = NoBlock THEN 0 ELSE 1) = NumPages

\* C3: within one run the block ids stamped on the pages are 1, 2, 3, ... in the
\* order getNextBlock() returned the pages
C3_BlockIdsCountFromOne ==
  \A r \in 1..MaxRuns : \A k \in 1..Len(RunLog(r)) : RunLog(r)[k].blockId = k

C3_Witness == Len(RunLog(1)) >= 2 /\ Len(eq.dataOut) >= 1

\* C4 as stated: over the lifetime, across stop() and start(), every page has a
\* block id greater than the block id of every page emitted before it
C4_LifetimeIncreasing ==
  \A i, j \in 1..Len(eq.emitLog) :
     i < j => eq.emitLog[i].blockId < eq.emitLog[j].blockId

\* C4 amended: block ids increase strictly within a run, and start() resets the
\* counter, so that the first page of every run has block id 1
C4_IncreasingPerRun ==
  /\ \A i, j \in 1..Len(eq.emitLog) :
        (i < j /\ eq.emitLog[i].run = eq.emitLog[j].run)
           => eq.emitLog[i].blockId < eq.emitLog[j].blockId
  /\ \A j \in 1..Len(eq.emitLog) :
        (j = 1 \/ eq.emitLog[j - 1].run # eq.emitLog[j].run)
           => eq.emitLog[j].blockId = 1

C4_Witness == Len(RunLog(1)) >= 2 /\ Len(RunLog(2)) >= 1

\* blocks of the current run emitted at a time in [t1, t2]
EmittedIn(t1, t2) ==
  Cardinality({k \in 1..Len(eq.emitLog) :
                 /\ eq.emitLog[k].run = eq.runNo
                 /\ t1 <= eq.emitLog[k].at /\ eq.emitLog[k].at <= t2})

\* C6 as stated: in any window of length T, T much larger than 1/rate, at most
\* ceil(rate * T) + 1 blocks are emitted
C6_AnyWindow ==
  \A t1 \in eq.clk0..MaxTime : \A T \in (WindowMin * RatePeriod)..MaxTime :
     EmittedIn(t1, t1 + T) <= CeilDiv(T, RatePeriod) + 1

\* C6 amended: in any window of length T that begins at start(), T much larger
\* than 1/rate, at most ceil(rate * T) + 1 blocks are emitted
C6_WindowFromStart ==
  \A T \in (WindowMin * RatePeriod)..MaxTime :
     EmittedIn(eq.clk0, eq.clk0 + T) <= CeilDiv(T, RatePeriod) + 1

C6_Witness ==
  /\ eq.stats.nThrottle >= 1
  /\ now - eq.clk0 >= WindowMin * RatePeriod
  /\ EmittedIn(eq.clk0, now) >= 2

\* an iteration begins while the rate clock is not at its next tick and
\* readoutRate * elapsed - nBlocksOut, as an int, is <= 0
C24_OverRateStep ==
  /\ eq.running /\ eq.stats.nLoop' = eq.stats.nLoop + 1
  /\ eq.readoutRateOn
  /\ now - eq.clkT0 < RatePeriod
  /\ (now - eq.clk0) - eq.stats.nBlocksOut * RatePeriod < RatePeriod
\* the iteration is a throttle event and ends there: no block, no prepareBlocks()
C24_ThrottleEvent ==
  /\ eq.stats.nThrottle' = eq.stats.nThrottle + 1
  /\ eq.pc' = "idle"
  /\ eq.emitLog' = eq.emitLog /\ eq.ready' = eq.ready
  /\ eq.stats.nBlocksOut' = eq.stats.nBlocksOut

\* C24 as stated: in rate-limited mode every such iteration records a
\* throttle event and ends without a block and without prepareBlocks(), from
\* the first iteration of a run on
C24_ThrottledFromFirstIteration ==
  [][C24_OverRateStep => C24_ThrottleEvent]_vars

\* C24 amended: that holds once a block has been counted in nBlocksOut; while
\* nBlocksOut is 0 such an iteration is no throttle event: it goes on into
\* the loop with a budget <= 0, and on to the end of the iteration
C24_ThrottledOnceBlocksOut ==
  [][C24_OverRateStep =>
       IF eq.stats.nBlocksOut # 0 THEN C24_ThrottleEvent
       ELSE /\ eq.stats.nThrottle' = eq.stats.nThrottle
            /\ eq.pc' = "loop" /\ eq.maxBlocksToRead' <= 0]_vars

\* a throttle event happened in this run, after blocks went out
C24_Witness ==
  /\ eq.readoutRateOn /\ eq.running /\ eq.pc = "idle"
  /\ eq.stats.nThrottle >= 1 /\ eq.stats.nBlocksOut >= 1
  /\ now - eq.clkT0 < RatePeriod

\* an iteration reaches its end and calls prepareBlocks()
C30_PrepareStep == eq.pc = "post" /\ eq.pc' = "idle" /\ eq.prepared'
\* getNextBlock() is called while the source has a block and the pool a page
C30_TakeStep == eq.pc = "get" /\ eq.pc' # "get" /\ eq.ready > 0 /\ eq.poolFree > 0

C7_FullFifoStep ==
  (/\ eq.pc = "loop" /\ eq.loopIx < eq.maxBlocksToRead
   /\ FifoIsFull(eq.dataOut, eq.fifoSize)
   /\ eq'.pc # "loop")
  => /\ eq'.pc = "post"
     /\ eq'.stats.nOutputFull = eq.stats.nOutputFull + 1
     /\ eq'.ready = eq.ready /\ eq'.emitLog = eq.emitLog
     /\ eq'.nextBlock = NoBlock

\* C7: the producer never waits on a full output FIFO and never loses a page
\* to it: a full FIFO ends the iteration with nOutputFull counted, and every
\* page taken with output enabled is pushed successfully
C7_NeverBlocksNeverLoses ==
  /\ [](eq.lostPages = 0)
  /\ [](eq.pc # "idle" => ENABLED EqThread)
  /\ [][C7_FullFifoStep]_vars

C7_Witness ==
  /\ eq.stats.nOutputFull >= 1 /\ ~eq.disableOutput
  /\ eq.fifoSize < NumPages /\ eq.pc = "push" /\ eq.held >= 1

\* with every page of the pool outstanding no block is emitted, and the
\* attempt is counted, by nOutputFull or by the pool's own counter
C8_ExhaustedStep ==
  /\ (eq.poolFree = 0 /\ eq.nextBlock = NoBlock) => eq'.emitLog = eq.emitLog
  /\ (/\ eq.poolFree = 0 /\ eq'.pc # eq.pc
      /\ \/ eq.pc = "loop" /\ eq.loopIx < eq.maxBlocksToRead
               /\ FifoIsFull(eq.dataOut, eq.fifoSize)
         \/ eq.pc = "get" /\ eq.ready > 0)
     => eq'.stats.nOutputFull + eq'.stats.poolEmpty
          = eq.stats.nOutputFull + eq.stats.poolEmpty + 1

\* the producer cannot be expected to go on: stopped, no data waiting, or the
\* end of the modelled lifetime
EqHalted ==
  ~eq.running \/ eq.stopping \/ eq.ready = 0 \/ eq.nLoopLife >= MaxLoop

----------------------------------------------------------------------------
(* ReadoutEquipment on RDH data: what one pass of the emit loop does to the *)
(* header of the block that getNextBlock() returned                         *)

TFperiod == 2        \* largest TFperiod configured, orbits per timeframe
MaxRdhs == 2         \* RDHs in a page
MaxOrbit == 3        \* heartbeat orbits run over 0..MaxOrbit
MaxTfId == 2         \* timeframe ids a device may have put in a header
MaxBlocks == 2       \* blocks taken per run
OrbitModulus == 8     \* orbits wrap at OrbitModulus (a uint32_t in the program)
undefinedEquipmentId == 65535
undefinedLinkId == 255
undefinedSystemId == 255
undefinedFeeId == 65535
undefinedOrbit == 0

NoPage == [header |-> << >>, rdh |-> << >>]

\* no page has left the equipment in this run
NoneEmitted == -1

\* a ReadoutEquipment after its constructor and start()
RdhCreated(isRdh, useFirst, check, id, period) ==
  [ isRdhEquipment |-> isRdh,
    timeframePeriodOrbits |-> period,
    cfgRdhUseFirstInPageEnabled |-> useFirst,
    cfgRdhCheckEnabled |-> check,
    usingSoftwareClock |-> ~useFirst,
    id |-> id,
    isDefinedFirstTimeframeHbOrbitBegin |-> FALSE,
    firstTimeframeHbOrbitBegin |-> undefinedOrbit,
    currentTimeframe |-> undefinedTimeframeId,
    currentBlockId |-> undefinedBlockId,
    statsRdhCheckErr |-> 0,
    statsRdhCheckStreamErr |-> 0,
    lastEmitted |-> NoneEmitted,
    pc |-> "get",
    block |-> NoPage ]

\* threadCallback: the software clock moves to the next timeframe
RdhClockTick ==
  /\ rq.pc = "get" /\ rq.usingSoftwareClock
  /\ rq.currentTimeframe < MaxTfId
  /\ rq' = [rq EXCEPT !.currentTimeframe = @ + 1]
  /\ UNCHANGED << eq, now, fm, cx, pg, fq, db >>

\* the RDHs that follow the first one in a page: well formed, each with its
\* trigger orbit and its link
LaterRdh == [triggerOrbit : 0..MaxOrbit, linkId : 0..1]
RECURSIVE SeqsUpTo(_, _)
SeqsUpTo(S, n) ==
  IF n = 0 THEN { << >> }
  ELSE LET shorter == SeqsUpTo(S, n - 1)
       IN shorter \cup { Append(q, x) : q \in shorter, x \in S }
MoreRdhs == SeqsUpTo(LaterRdh, MaxRdhs - 1)

\* the first RDH of a page: one that validateRdh() rejects, or a well formed
\* one with one orbit for heartbeat and trigger
BadRdh ==
  [valid |-> FALSE, hbOrbit |-> 0, systemId |-> 0, feeId |-> 0, cruId |-> 0,
   endPointId |-> 0, linkId |-> 0, more |-> << >>]
FirstRdhs ==
  {BadRdh} \cup
  [valid : {TRUE}, hbOrbit : 0..MaxOrbit, systemId : {1}, feeId : {1},
   cruId : 0..1, endPointId : 0..1, linkId : 0..1, more : MoreRdhs]

\* getNextBlock(): the device hands over a page; its header may already carry
\* a timeframe id, and its payload starts with an RDH, well formed or not,
\* which other RDHs may follow
RdhGetNextBlock ==
  /\ rq.pc = "get" /\ rq.currentBlockId < MaxBlocks
  /\ \E tf \in 0..MaxTfId, rdh \in FirstRdhs :
       rq' = [rq EXCEPT
                !.block = [ header |-> [ timeframeId |-> tf,
                                         systemId |-> undefinedSystemId,
                                         feeId |-> undefinedFeeId,
                                         equipmentId |-> undefinedEquipmentId,
                                         linkId |-> undefinedLinkId,
                                         blockId |-> undefinedBlockId,
                                         timeframeOrbitFirst |-> undefinedOrbit,
                                         timeframeOrbitLast |-> undefinedOrbit,
                                         isRdhFormat |-> FALSE ],
                            rdh |-> rdh ],
                !.pc = "rdh"]
  /\ UNCHANGED << eq, now, fm, cx, pg, fq, db >>

\* 1 + (hbOrbit - firstTimeframeHbOrbitBegin) / period on uint32_t orbits, and
\* the same without the wrap
TimeframeOfOrbitNoWrap(first, hbOrbit, period) ==
  1 + ((hbOrbit - first) \div period)
TimeframeOfOrbit(first, hbOrbit, period) ==
  1 + (((hbOrbit - first) % OrbitModulus) \div period)

\* getTimeframeFromOrbit: the first orbit seen starts timeframe 1; the
\* equipment's current timeframe follows the orbit
getTimeframeFromOrbit(r, hbOrbit) ==
  LET first == IF r.isDefinedFirstTimeframeHbOrbitBegin
               THEN r.firstTimeframeHbOrbitBegin ELSE hbOrbit
  IN [r EXCEPT !.firstTimeframeHbOrbitBegin = first,
               !.isDefinedFirstTimeframeHbOrbitBegin = TRUE,
               !.currentTimeframe =
                  TimeframeOfOrbit(first, hbOrbit, r.timeframePeriodOrbits)]

\* getTimeframeOrbitRange: first and last orbit of timeframe tfId
getTimeframeOrbitRange(r, tfId) ==
  IF tfId = undefinedTimeframeId \/ ~r.isDefinedFirstTimeframeHbOrbitBegin
  THEN [hbOrbitMin |-> undefinedOrbit, hbOrbitMax |-> undefinedOrbit]
  ELSE LET period == r.timeframePeriodOrbits
           hbOrbitMin ==
             (r.firstTimeframeHbOrbitBegin + (tfId - 1) * period) % OrbitModulus
       IN [hbOrbitMin |-> hbOrbitMin,
           hbOrbitMax |-> (hbOrbitMin + period - 1) % OrbitModulus]

\* equipmentId computed from CRU id + end-point, the default value of the CRU
\* discarded; and the same with that value kept
EquipmentIdOfCruKeep(cruId, endPointId) == cruId * 10 + endPointId
EquipmentIdOfCru(cruId, endPointId) ==
  IF cruId * 10 + endPointId = 0 THEN undefinedEquipmentId
  ELSE cruId * 10 + endPointId

\* tagDatablockFromRdh: the header fields are written from the first RDH,
\* or with the undefined values when that RDH is not valid
tagDatablockFromRdh(r) ==
  IF ~r.block.rdh.valid
  THEN [r EXCEPT !.block.header.timeframeId = undefinedTimeframeId,
                 !.block.header.systemId = undefinedSystemId,
                 !.block.header.feeId = undefinedFeeId,
                 !.block.header.equipmentId = undefinedEquipmentId,
                 !.block.header.linkId = undefinedLinkId,
                 !.block.header.timeframeOrbitFirst = undefinedOrbit,
                 !.block.header.timeframeOrbitLast = undefinedOrbit]
  ELSE LET r1 == getTimeframeFromOrbit(r, r.block.rdh.hbOrbit)
           range == getTimeframeOrbitRange(r1, r1.currentTimeframe)
       IN [r1 EXCEPT !.block.header.timeframeId = r1.currentTimeframe,
                     !.block.header.systemId = r.block.rdh.systemId,
                     !.block.header.feeId = r.block.rdh.feeId,
                     !.block.header.equipmentId =
                        EquipmentIdOfCru(r.block.rdh.cruId, r.block.rdh.endPointId),
                     !.block.header.linkId = r.block.rdh.linkId,
                     !.block.header.timeframeOrbitFirst = range.hbOrbitMin,
                     !.block.header.timeframeOrbitLast = range.hbOrbitMax]

\* the test "no timeframe overlap in page" on one trigger orbit
OrbitOutOfRange(first, last, triggerOrbit) ==
  \/ first < last /\ (triggerOrbit < first \/ triggerOrbit > last)
  \/ first > last /\ (triggerOrbit < first /\ triggerOrbit > last)

\* the trigger orbits and the links of the RDHs of the page, in page order
TriggerOrbits(rdh) ==
  << rdh.hbOrbit >> \o [k \in 1..Len(rdh.more) |-> rdh.more[k].triggerOrbit]
LinkIds(rdh) ==
  << rdh.linkId >> \o [k \in 1..Len(rdh.more) |-> rdh.more[k].linkId]

\* linkId != h.getLinkId(), and a test that never sees a difference
LinkDiffersNever(linkId, link) == FALSE
LinkDiffers(linkId, link) == linkId # link

\* the loop over the RDHs of the page when cfgRdhCheckEnabled, from RDH k on:
\* it counts and stops at an RDH of another link than the first, and at a
\* trigger orbit out of the orbit range of the header; the page stays as it is
RECURSIVE WalkRdhs(_, _)
WalkRdhs(r, k) ==
  IF k > Len(TriggerOrbits(r.block.rdh)) THEN r
  ELSE IF LinkDiffers(r.block.rdh.linkId, LinkIds(r.block.rdh)[k])
  THEN [r EXCEPT !.statsRdhCheckStreamErr = @ + 1]
  ELSE IF OrbitOutOfRange(r.block.header.timeframeOrbitFirst,
                          r.block.header.timeframeOrbitLast,
                          TriggerOrbits(r.block.rdh)[k])
  THEN [r EXCEPT !.statsRdhCheckStreamErr = @ + 1]
  ELSE WalkRdhs(r, k + 1)

\* the loop stops at once, with an error counted, when the first RDH is not valid
checkRdhs(r) ==
  IF ~r.block.rdh.valid THEN [r EXCEPT !.statsRdhCheckErr = @ + 1]
  ELSE WalkRdhs(r, 1)

processRdh(r) ==
  LET r1 == IF r.cfgRdhUseFirstInPageEnabled \/ r.cfgRdhCheckEnabled
            THEN [tagDatablockFromRdh(r) EXCEPT
                    !.block.header.isRdhFormat = r.block.rdh.valid]
            ELSE r
  IN IF r.cfgRdhCheckEnabled THEN checkRdhs(r1) ELSE r1

\* threadCallback: handle RDH-formatted data
RdhProcess ==
  /\ rq.pc = "rdh"
  /\ rq' = [(IF rq.isRdhEquipment THEN processRdh(rq) ELSE rq) EXCEPT !.pc = "stamp"]
  /\ UNCHANGED << eq, now, fm, cx, pg, fq, db >>

\* threadCallback: tag the block with equipment id, block id and timeframe id
RdhStamp ==
  /\ rq.pc = "stamp"
  /\ rq' = [rq EXCEPT
              !.currentBlockId = @ + 1,
              !.block.header.equipmentId =
                 IF rq.id # undefinedEquipmentId THEN rq.id ELSE @,
              !.block.header.blockId = rq.currentBlockId + 1,
              !.block.header.timeframeId =
                 IF @ = undefinedTimeframeId THEN rq.currentTimeframe ELSE @,
              !.pc = "emit"]
  /\ UNCHANGED << eq, now, fm, cx, pg, fq, db >>

\* threadCallback pushes the block to the output FIFO; the dispatcher reads
\* its header and writes only the header of its own STF page
RdhEmit ==
  /\ rq.pc = "emit"
  /\ rq' = [rq EXCEPT !.pc = "get", !.block = NoPage]
  /\ UNCHANGED << eq, now, fm, cx, pg, fq, db >>

InitRdh ==
  /\ now = 0 /\ db = Unused /\ fq = Unused /\ eq = Unused /\ fm = Unused /\ cx = Unused /\ pg = Unused
  /\ \E isRdh \in BOOLEAN, useFirst \in BOOLEAN, check \in BOOLEAN,
        id \in {undefinedEquipmentId, 1}, period \in 1..TFperiod :
       rq = RdhCreated(isRdh, useFirst, check, id, period)
NextRdh == RdhClockTick \/ RdhGetNextBlock \/ RdhProcess \/ RdhStamp \/ RdhEmit
SpecRdh == InitRdh /\ [][NextRdh]_vars

\* The software clock: rdhUseFirstInPageEnabled = 0, and a device that leaves
\* the timeframe id of its pages undefined

MaxClockBlocks == 3  \* blocks taken per run under the software clock

\* getNextBlock(): a page with the header of a fresh DataBlock
RdhGetUntagged ==
  /\ rq.pc = "get" /\ rq.currentBlockId < MaxClockBlocks
  /\ \E rdh \in FirstRdhs :
       rq' = [rq EXCEPT
                !.block = [ header |-> [ timeframeId |-> undefinedTimeframeId,
                                         systemId |-> undefinedSystemId,
                                         feeId |-> undefinedFeeId,
                                         equipmentId |-> undefinedEquipmentId,
                                         linkId |-> undefinedLinkId,
                                         blockId |-> undefinedBlockId,
                                         timeframeOrbitFirst |-> undefinedOrbit,
                                         timeframeOrbitLast |-> undefinedOrbit,
                                         isRdhFormat |-> FALSE ],
                            rdh |-> rdh ],
                !.pc = "rdh"]
  /\ UNCHANGED << eq, now, fm, cx, pg, fq, db >>

\* the block goes to the output FIFO; lastEmitted keeps its timeframe id
RdhEmitLogged ==
  /\ rq.pc = "emit"
  /\ rq' = [rq EXCEPT !.pc = "get", !.block = NoPage,
                      !.lastEmitted = rq.block.header.timeframeId]
  /\ UNCHANGED << eq, now, fm, cx, pg, fq, db >>

InitSwClock ==
  /\ now = 0 /\ db = Unused /\ fq = Unused /\ eq = Unused /\ fm = Unused /\ cx = Unused /\ pg = Unused
  /\ \E isRdh \in BOOLEAN, check \in BOOLEAN, period \in 1..TFperiod :
       rq = RdhCreated(isRdh, FALSE, check, 1, period)
NextSwClock ==
  RdhClockTick \/ RdhGetUntagged \/ RdhProcess \/ RdhStamp \/ RdhEmitLogged
SpecSwClock == InitSwClock /\ [][NextSwClock]_vars

\* the stamping step gives the equipment's timeframe counter to a page that
\* has no timeframe id
StampsCounterStep ==
  (rq.pc = "stamp" /\ rq'.pc = "emit"
   /\ rq.block.header.timeframeId = undefinedTimeframeId)
    => rq'.block.header.timeframeId = rq.currentTimeframe

\* C31: under the software clock a page that comes without a timeframe id
\* leaves with the equipment's timeframe counter, which is a defined id, 1 or
\* more: no page leaves with undefinedTimeframeId, also not before the first
\* tick of the clock
C31_SoftwareClockStampsDefinedId ==
  /\ [][StampsCounterStep]_vars
  /\ [](rq.pc = "emit" => rq.block.header.timeframeId # undefinedTimeframeId)

\* what holds: the page leaves with the counter, defined or not, and with a
\* defined id once the clock has ticked
StampedWithCounter ==
  /\ [][StampsCounterStep]_vars
  /\ [](rq.pc = "emit" /\ rq.currentTimeframe # undefinedTimeframeId
          => rq.block.header.timeframeId # undefinedTimeframeId)

\* C39: under the software clock the timeframe ids of the pages emitted in a
\* run never decrease from one page to the next, whatever isRdhEquipment
\* and rdhCheckEnabled are
C39_SoftwareClockIdsNonDecreasing ==
  rq.pc = "emit" => rq.lastEmitted <= rq.block.header.timeframeId

\* what holds: the ids never decrease when the pages are not tagged from
\* their RDH
ClockAloneNonDecreasing ==
  (rq.pc = "emit" /\ ~(rq.isRdhEquipment /\ rq.cfgRdhCheckEnabled))
    => rq.lastEmitted <= rq.block.header.timeframeId
\* the clock is at timeframe 2, a page with a wrong first RDH has left with
\* that id, and the next page, the first with a valid RDH, leaves with id 1
TaggedAfterClock ==
  /\ rq.pc = "emit" /\ rq.lastEmitted = 2 /\ rq.currentBlockId = 2
  /\ rq.block.rdh.valid /\ rq.block.header.timeframeId = 1

\* a step of the equipment on the block in hand keeps a defined timeframeId
C5_DefinedStep ==
  (rq.pc # "get" /\ rq.block.header.timeframeId # undefinedTimeframeId)
    => rq'.block.header.timeframeId = rq.block.header.timeframeId

\* C5: once the header timeframeId of a page is defined, neither RDH tagging,
\* nor the stamping of the emit loop, nor the dispatcher changes it
C5_DefinedTimeframeIdImmutable == [][C5_DefinedStep]_vars

\* wrap-aware: the orbit lies in [first, last]
InOrbitRange(first, last, orbit) ==
  IF first <= last THEN first <= orbit /\ orbit <= last
  ELSE orbit >= first \/ orbit <= last

\* C18: a page pushed to the output FIFO with a defined timeframeId has the
\* trigger orbit of every RDH inside its [timeframeOrbitFirst,
\* timeframeOrbitLast] range; stated for the equipment that checks its RDHs
C18_EmittedOrbitsInRange ==
  (rq.pc = "emit" /\ rq.isRdhEquipment /\ rq.cfgRdhCheckEnabled
   /\ rq.block.rdh.valid
   /\ rq.block.header.timeframeId # undefinedTimeframeId) =>
    \A k \in 1..Len(TriggerOrbits(rq.block.rdh)) :
      InOrbitRange(rq.block.header.timeframeOrbitFirst,
                   rq.block.header.timeframeOrbitLast,
                   TriggerOrbits(rq.block.rdh)[k])

\* the page in hand is one whose RDHs the equipment walks: RDH equipment,
\* checks enabled, first RDH well formed
RdhWalked ==
  rq.isRdhEquipment /\ rq.cfgRdhCheckEnabled /\ rq.block.rdh.valid

\* RDH k of the page is of another link than the first, and the RDHs before
\* it are of the link of the first and pass the test of the orbit range
\* [first, last]
MeetsOtherLink(rdh, first, last) ==
  \E k \in 1..Len(LinkIds(rdh)) :
    /\ LinkIds(rdh)[k] # rdh.linkId
    /\ \A j \in 1..(k - 1) :
         /\ LinkIds(rdh)[j] = rdh.linkId
         /\ ~OrbitOutOfRange(first, last, TriggerOrbits(rdh)[j])

\* C25: with the checks enabled, a walk that meets an RDH of another link
\* than the first RDH of the page counts exactly one stream error for the
\* page and stops; the page goes on to be emitted with isRdhFormat = 1 and
\* with the header fields as tagged from its first RDH
C25_LinkMismatchStep ==
  (/\ rq.pc = "rdh" /\ RdhWalked
   /\ MeetsOtherLink(rq.block.rdh, rq'.block.header.timeframeOrbitFirst,
                     rq'.block.header.timeframeOrbitLast))
  => /\ rq'.statsRdhCheckStreamErr = rq.statsRdhCheckStreamErr + 1
     /\ rq'.statsRdhCheckErr = rq.statsRdhCheckErr
     /\ rq'.pc = "stamp"
     /\ rq'.block.header =
          [tagDatablockFromRdh(rq).block.header EXCEPT !.isRdhFormat = TRUE]
C25_LinkMismatchCountedOnce ==
  /\ [][C25_LinkMismatchStep]_vars
  /\ []((/\ rq.pc \in {"stamp", "emit"} /\ RdhWalked
         /\ MeetsOtherLink(rq.block.rdh, rq.block.header.timeframeOrbitFirst,
                           rq.block.header.timeframeOrbitLast))
        => /\ rq.block.header.isRdhFormat
           /\ rq.block.header.linkId = rq.block.rdh.linkId)

\* a page of two RDHs of links 0 and 1 is at the output, one stream error counted
C25_Witness ==
  /\ rq.pc = "emit" /\ RdhWalked
  /\ Len(rq.block.rdh.more) >= 1
  /\ rq.block.rdh.linkId = 0 /\ rq.block.rdh.more[1].linkId = 1
  /\ rq.statsRdhCheckStreamErr = 1
  /\ rq.block.header.isRdhFormat /\ rq.block.header.linkId = 0

\* the first RDH of the page in hand is parsed
RdhParsed ==
  rq.isRdhEquipment /\ (rq.cfgRdhUseFirstInPageEnabled \/ rq.cfgRdhCheckEnabled)

\* the RDHs of the page are all of the link of the first
OneLink(rdh) == \A k \in 1..Len(LinkIds(rdh)) : LinkIds(rdh)[k] = rdh.linkId

\* the walk over the page, on pages of one link, counts a stream error
\* exactly when a trigger orbit lies outside the orbit range of the header
OrbitCheckStep ==
  (rq.pc = "rdh" /\ RdhWalked /\ OneLink(rq.block.rdh))
  => LET outside ==
           \E k \in 1..Len(TriggerOrbits(rq.block.rdh)) :
             ~InOrbitRange(rq'.block.header.timeframeOrbitFirst,
                           rq'.block.header.timeframeOrbitLast,
                           TriggerOrbits(rq.block.rdh)[k])
     IN rq'.statsRdhCheckStreamErr =
          rq.statsRdhCheckStreamErr + (IF outside THEN 1 ELSE 0)

\* C26: with the checks enabled the walk flags a stream error exactly when it
\* meets an RDH whose trigger orbit lies outside [timeframeOrbitFirst,
\* timeframeOrbitLast], compared wrap-aware, also for a range that wraps and
\* for a range of one orbit (TFperiod = 1)
C26_OrbitOutsideRangeFlagged == [][OrbitCheckStep]_vars

\* the same for the timeframes of two orbits and more
OrbitCheckHoldsFromTwoOrbits ==
  [][rq.timeframePeriodOrbits >= 2 => OrbitCheckStep]_vars

\* C27: with orbits that wrap, the timeframe id computed for an orbit o after
\* the first orbit f is 1 + ((o - f) mod 2^32) div TFperiod, so at least 1,
\* and the orbit range reported for that id contains o and spans TFperiod
\* orbits
C27_TimeframeOfWrappedOrbit ==
  (rq.pc = "stamp" /\ RdhParsed /\ rq.block.rdh.valid)
  => LET d == (rq.block.rdh.hbOrbit - rq.firstTimeframeHbOrbitBegin) % OrbitModulus
         period == rq.timeframePeriodOrbits
         tfId == rq.block.header.timeframeId
         first == rq.block.header.timeframeOrbitFirst
         last == rq.block.header.timeframeOrbitLast
     IN /\ rq.isDefinedFirstTimeframeHbOrbitBegin
        /\ tfId >= 1
        /\ (tfId - 1) * period <= d /\ d < tfId * period
        /\ rq.currentTimeframe = tfId
        /\ InOrbitRange(first, last, rq.block.rdh.hbOrbit)
        /\ (last - first) % OrbitModulus = period - 1

\* an orbit below the first orbit, in a timeframe whose range wraps
C27_Witness ==
  /\ rq.pc = "stamp" /\ RdhParsed /\ rq.block.rdh.valid
  /\ rq.block.rdh.hbOrbit < rq.firstTimeframeHbOrbitBegin
  /\ rq.block.header.timeframeOrbitFirst > rq.block.header.timeframeOrbitLast
  /\ rq.block.header.timeframeId > 1

\* C28: whenever the first RDH of a page is parsed and fails validation,
\* with rdhUseFirstInPageEnabled or rdhCheckEnabled or both, the page is
\* marked as not RDH-formatted, its system, FEE, link and equipment fields
\* are undefined, rdhCheckErr is incremented, and the page goes on to be
\* emitted
C28_InvalidFirstRdhStep ==
  (rq.pc = "rdh" /\ RdhParsed /\ ~rq.block.rdh.valid)
  => /\ ~rq'.block.header.isRdhFormat
     /\ rq'.block.header.systemId = undefinedSystemId
     /\ rq'.block.header.feeId = undefinedFeeId
     /\ rq'.block.header.linkId = undefinedLinkId
     /\ rq'.block.header.equipmentId = undefinedEquipmentId
     /\ rq'.statsRdhCheckErr = rq.statsRdhCheckErr + 1
     /\ rq'.pc = "stamp"
C28_InvalidFirstRdhCounted == [][C28_InvalidFirstRdhStep]_vars

\* the same with the counter left out
InvalidFirstRdhMarked ==
  [][(rq.pc = "rdh" /\ RdhParsed /\ ~rq.block.rdh.valid)
     => /\ ~rq'.block.header.isRdhFormat
        /\ rq'.block.header.systemId = undefinedSystemId
        /\ rq'.block.header.feeId = undefinedFeeId
        /\ rq'.block.header.linkId = undefinedLinkId
        /\ rq'.block.header.equipmentId = undefinedEquipmentId
        /\ rq'.statsRdhCheckErr
             = rq.statsRdhCheckErr + (IF rq.cfgRdhCheckEnabled THEN 1 ELSE 0)
        /\ rq'.pc = "stamp"]_vars

----------------------------------------------------------------------------
(* ConsumerFMQchannel: building the message of one dataset (pushData,       *)
(* processForDataDistribution without threads, DDformatMessage)             *)

MaxDsPages == 3        \* pages in a dataset
MaxPackets == 2        \* RDH packets in a page
FmtPoolPages == 3      \* pages of the dispatcher's pool
FmtPageSize == 2000    \* memoryPoolPageSize, in bytes
SubTimeframeSize == 32 \* sizeof(SubTimeframe)
MaxPushData == 2       \* datasets passed to pushData

NoHBid == OrbitModulus - 1     \* (unsigned int)-1, no heartbeat seen yet
Orbits == {1, NoHBid}          \* orbits of the packets, the starting value of lastHBid among them
PacketSizes == {400, 800}      \* bytes of a packet, RDH included
Packet == [orbit : Orbits, size : PacketSizes]
PacketSeqs == UNION { [1..n -> Packet] : n \in 0..MaxPackets }

\* the timeframe, link and equipment of the dataset being built, and the
\* headers of pages that belong elsewhere
HomeHeader ==
  [timeframeId |-> 1, linkId |-> 0, equipmentId |-> 1,
   flagEndOfTimeframe |-> FALSE, isRdhFormat |-> TRUE]
ForeignHeaders ==
  { [HomeHeader EXCEPT !.timeframeId = 2], [HomeHeader EXCEPT !.linkId = 1],
    [HomeHeader EXCEPT !.equipmentId = 2] }

RECURSIVE SumSizes(_)
SumSizes(pkts) ==
  IF pkts = << >> THEN 0 ELSE Head(pkts).size + SumSizes(Tail(pkts))

\* header.dataSize of a page: its packets lie back to back from offset 0,
\* each RDH giving the size of its packet as offsetNextPacket
DataSize(page) == SumSizes(page.packets)

StfHeaderDefaults ==
  [timeframeId |-> undefinedTimeframeId, linkId |-> undefinedLinkId,
   equipmentId |-> undefinedEquipmentId, lastTFMessage |-> 0]

\* the STF header fields copied from the first block of the dataset
StfHeaderOf(ds) ==
  IF ds = << >> THEN StfHeaderDefaults
  ELSE [StfHeaderDefaults EXCEPT !.timeframeId = ds[1].header.timeframeId,
                                 !.linkId = ds[1].header.linkId,
                                 !.equipmentId = ds[1].header.equipmentId]

\* DDformatMessage sets lastTFMessage when it meets a block with the flag
AnyEndOfTimeframe(ds) == \E k \in 1..Len(ds) : ds[k].header.flagEndOfTimeframe
\* pushData in StfSuperpage format looks at bc->back()
BackEndOfTimeframe(ds) == ds[Len(ds)].header.flagEndOfTimeframe
LastTFMessage(flag) == IF flag THEN 1 ELSE 0

RECURSIVE SumFrames(_)
SumFrames(frames) ==
  IF frames = << >> THEN 0 ELSE Head(frames).len + SumFrames(Tail(frames))

\* pendingFramesAppend: a piece of page ix, kept until its frame is complete
pendingFramesAppend(st, ix, start, l) ==
  [st EXCEPT !.pendingFrames = Append(@, [page |-> ix, start |-> start, len |-> l])]

\* DataBlockContainer::getChildBlock on the copy buffer: size bytes of its tail
ChildFits(bufLeft, size) == bufLeft >= size

ChildFitsNever(bufLeft, size) == FALSE

\* mp->getNewDataBlockContainer() for a copy: the next page of the pool;
\* scratchPages counts the pages taken for copies, the last one is in use
NewScratchPage(st) == [st EXCEPT !.free = @ - 1, !.scratchPages = @ + 1]

\* the page that receives the copy of a frame of totalSize bytes: st with the
\* pool and the copy buffer updated, ok false when no page is left
RepackAllocate(st, totalSize) ==
  IF st.enablePackedCopy
  THEN IF st.hasBuffer /\ ChildFits(st.bufLeft, totalSize)
       THEN [st EXCEPT !.bufLeft = @ - totalSize]
       ELSE IF st.free > 0
            THEN [NewScratchPage(st) EXCEPT !.hasBuffer = TRUE,
                                            !.bufLeft = FmtPageSize - totalSize]
            ELSE [st EXCEPT !.hasBuffer = FALSE, !.ok = FALSE, !.err = "noPage"]
  ELSE IF st.free > 0 THEN NewScratchPage(st)
       ELSE [st EXCEPT !.ok = FALSE, !.err = "noPage"]

\* the copy loop: each piece goes to newIx in the fresh page, and newIx moves
\* on by the length of the piece
RECURSIVE CopyOffsetsStill(_, _)
CopyOffsetsStill(frames, newIx) ==
  IF frames = << >> THEN << >>
  ELSE << newIx >> \o CopyOffsetsStill(Tail(frames), newIx)
RECURSIVE CopyOffsets(_, _)
CopyOffsets(frames, newIx) ==
  IF frames = << >> THEN << >>
  ELSE << newIx >> \o CopyOffsets(Tail(frames), newIx + Head(frames).len)

\* a message part: the pieces it is made of and where each piece lies from
\* the start of the part
OnePartPerFrame(pending) ==
  << [kind |-> IF Len(pending) = 1 THEN "ref" ELSE "copy", frames |-> pending,
      dst |-> CopyOffsets(pending, 0)] >>

\* the page of the pool a part lies in: none for a reference into a source
\* page, the scratch page in use for a copy
NoScratch == 0

\* ddm.subTimeframeFMQSize += l, and a sum that is not kept
AddFMQSizeNot(st, l) == st
AddFMQSize(st, l) == [st EXCEPT !.subTimeframeFMQSize = @ + l]

\* pendingFramesCollect: the pending pieces make one message part, a
\* reference into the source page when there is one piece, a copy otherwise
pendingFramesCollect(st) ==
  IF ~st.ok \/ st.pendingFrames = << >> THEN st
  ELSE IF Len(st.pendingFrames) = 1
  THEN [AddFMQSize(st, st.pendingFrames[1].len) EXCEPT
          !.parts = @ \o OnePartPerFrame(st.pendingFrames),
          !.scratchOf = Append(@, NoScratch),
          !.pendingFrames = << >>]
  ELSE LET totalSize == SumFrames(st.pendingFrames)
       IN IF FmtPageSize < totalSize
          THEN [st EXCEPT !.ok = FALSE, !.err = "pageTooSmall"]
          ELSE LET st1 == RepackAllocate(st, totalSize)
               IN IF ~st1.ok THEN st1
                  ELSE [AddFMQSize(st1, totalSize) EXCEPT
                          !.parts = @ \o OnePartPerFrame(st.pendingFrames),
                          !.scratchOf = Append(@, st1.scratchPages),
                          !.pendingFrames = << >>]

NewHBfNever(orbit, lastHBid) == FALSE
NewHBf(orbit, lastHBid) == orbit # lastHBid

\* the walk over the RDHs of page ix from packet k at byte offset on
RECURSIVE WalkPackets(_, _, _, _, _)
WalkPackets(st, ix, pkts, k, offset) ==
  IF ~st.ok \/ k > Len(pkts) THEN st
  ELSE IF NewHBf(pkts[k].orbit, st.lastHBid)
  THEN LET HBlength == offset - st.HBstart
           st1 == IF HBlength # 0
                  THEN pendingFramesAppend(st, ix, st.HBstart, HBlength) ELSE st
           st2 == pendingFramesCollect(st1)
       IN WalkPackets([st2 EXCEPT !.HBstart = offset, !.lastHBid = pkts[k].orbit],
                      ix, pkts, k + 1, offset + pkts[k].size)
  ELSE WalkPackets(st, ix, pkts, k + 1, offset + pkts[k].size)

\* the body of the loop over the blocks of the dataset
WalkPage(st, ix, page) ==
  LET st1 == WalkPackets([st EXCEPT !.HBstart = 0], ix, page.packets, 1, 0)
  IN IF st1.ok /\ st1.HBstart < DataSize(page)
     THEN pendingFramesAppend(st1, ix, st1.HBstart, DataSize(page) - st1.HBstart)
     ELSE st1

RECURSIVE WalkDataset(_, _, _)
WalkDataset(st, ds, ix) ==
  IF ~st.ok \/ ix > Len(ds) THEN st
  ELSE WalkDataset(WalkPage(st, ix, ds[ix]), ds, ix + 1)

NoMessage == [ok |-> FALSE, hdr |-> StfHeaderDefaults, parts |-> << >>]

\* the locals of a call of DDformatMessage once the page of the STF header is
\* there; released counts the handles of pending pieces deleted on an error
FormatStart(free, packed) ==
  [ok |-> TRUE, err |-> "none", free |-> free - 1, enablePackedCopy |-> packed,
   hasBuffer |-> FALSE, bufLeft |-> 0, scratchPages |-> 0, lastHBid |-> NoHBid,
   HBstart |-> 0, pendingFrames |-> << >>, parts |-> << >>, scratchOf |-> << >>,
   released |-> 0, subTimeframeDataSize |-> 0,
   subTimeframeTotalSize |-> SubTimeframeSize,
   subTimeframeFMQSize |-> SubTimeframeSize]

\* the first loop over the blocks adds up header.dataSize, and the total is
\* the STF header and that sum
RECURSIVE CountDataSize(_, _, _)
CountDataSize(st, ds, ix) ==
  IF ix > Len(ds)
  THEN [st EXCEPT !.subTimeframeTotalSize = @ + st.subTimeframeDataSize]
  ELSE CountDataSize([st EXCEPT !.subTimeframeDataSize = @ + DataSize(ds[ix])],
                     ds, ix + 1)

\* DDformatMessage returns before it has a page for the STF header
NoHeaderPage(free, packed) ==
  [FormatStart(free, packed) EXCEPT
     !.ok = FALSE, !.free = free,
     !.err = IF FmtPageSize < SubTimeframeSize THEN "pageTooSmall" ELSE "noPage"]

\* catch (int err): the handles of the pending pieces are deleted, and
\* messagesToSend.clear() drops the parts built so far; the page of the STF
\* header and the pages of the copies go back to the pool with them
catchKeepsPending(st, free) ==
  [st EXCEPT !.parts = << >>, !.scratchOf = << >>, !.free = free]
catchCleanup(st, free) ==
  [st EXCEPT !.released = Len(st.pendingFrames), !.pendingFrames = << >>,
             !.parts = << >>, !.scratchOf = << >>, !.hasBuffer = FALSE,
             !.free = free]

\* the locals of DDformatMessage when it returns
DDformatWalk(ds, free, packed) ==
  IF FmtPageSize < SubTimeframeSize \/ free = 0 THEN NoHeaderPage(free, packed)
  ELSE LET st0 == CountDataSize(FormatStart(free, packed), ds, 1)
           st1 == pendingFramesCollect(WalkDataset(st0, ds, 1))
       IN IF st1.ok THEN st1 ELSE catchCleanup(st1, free)

\* DDformatMessage: the STF header in a page of the pool, then one part per
\* heartbeat frame; nothing when a page is missing or a frame does not fit
DDformatMessage(ds, free, packed) ==
  IF FmtPageSize < SubTimeframeSize \/ free = 0 THEN NoMessage
  ELSE LET st1 == DDformatWalk(ds, free, packed)
       IN IF st1.ok
          THEN [ok |-> TRUE,
                hdr |-> [StfHeaderOf(ds) EXCEPT
                           !.lastTFMessage = LastTFMessage(AnyEndOfTimeframe(ds))],
                parts |-> st1.parts]
          ELSE NoMessage

\* a part that is the payload of some page of the dataset, sent in place
PagePartOfFirst(ds, k) ==
  [kind |-> "ref", frames |-> << [page |-> 1, start |-> 0, len |-> DataSize(ds[1])] >>,
   dst |-> << 0 >>]
\* a part that is the payload of page k of the dataset, sent in place
PagePart(ds, k) ==
  [kind |-> "ref", frames |-> << [page |-> k, start |-> 0, len |-> DataSize(ds[k])] >>,
   dst |-> << 0 >>]

\* pushData in StfSuperpage format: the STF header and one part per page
StfSuperpageMessage(ds, free) ==
  IF free = 0 THEN NoMessage
  ELSE [ok |-> TRUE,
        hdr |-> [StfHeaderOf(ds) EXCEPT
                   !.lastTFMessage = LastTFMessage(BackEndOfTimeframe(ds))],
        parts |-> [k \in 1..Len(ds) |-> PagePart(ds, k)]]

\* the parts handed to the transport for an STF message: the STF header, then
\* the payload parts
StfHeaderPart(hdr) ==
  [kind |-> "stfHeader", frames |-> << >>, dst |-> << >>, hdr |-> hdr]
WireOf(m) == << StfHeaderPart(m.hdr) >> \o m.parts

\* the part made of the DataBlockHeader of a page
BlockHeaderPart == [kind |-> "blockHeader", frames |-> << >>, dst |-> << >>]

\* sendingChannel->Send(): the message reaches the peer, or the call reports
\* a failure and the message is dropped
Send(f, parts) ==
  IF f.transportUp THEN [f EXCEPT !.wire = Append(@, parts)] ELSE f
SendReportsFailure(f) == ~f.transportUp

\* pushData in Raw format: one message per page; the result of Send is not read
RECURSIVE SendRawPages(_, _)
SendRawPages(f, k) ==
  IF k > Len(f.ds) THEN f
  ELSE SendRawPages(Send(f, << PagePart(f.ds, k) >>), k + 1)
PushRaw(f) ==
  [SendRawPages(f, 1) EXCEPT !.totalPushSuccess = @ + 1, !.ret = 0]

\* pushData in DataBlock-raw format: per page one message of two parts
RECURSIVE SendRawDatablocks(_, _)
SendRawDatablocks(f, k) ==
  IF k > Len(f.ds) THEN f
  ELSE SendRawDatablocks(Send(f, << BlockHeaderPart, PagePart(f.ds, k) >>), k + 1)
PushRawDatablock(f) ==
  [SendRawDatablocks(f, 1) EXCEPT !.totalPushSuccess = @ + 1, !.ret = 0]

\* pushData in StfSuperpage format, also taken when the first block is not in
\* RDH format; the result of Send is not read
PushStfSuperpage(f) ==
  LET m == StfSuperpageMessage(f.ds, f.free)
  IN IF ~m.ok THEN [f EXCEPT !.msg = m, !.totalPushError = @ + 1, !.ret = -1]
     ELSE [Send([f EXCEPT !.msg = m], WireOf(m)) EXCEPT
             !.totalPushSuccess = @ + 1, !.ret = 0]

\* DDsendMessage: success is counted when Send accepts the message
DDsendMessage(f, m) ==
  IF SendReportsFailure(f) THEN [Send(f, WireOf(m)) EXCEPT !.ret = -1]
  ELSE [Send(f, WireOf(m)) EXCEPT !.totalPushSuccess = @ + 1, !.ret = 0]

\* processForDataDistribution, nwThreads = 0; with threads it refuses a
\* dataset whose first and last block differ in timeframe. A failure is
\* counted by DDformatMessage and once more here.
processForDataDistribution(f) ==
  LET m == DDformatMessage(f.ds, f.free, f.enablePackedCopy)
      f0 == [f EXCEPT !.msg = m,
                      !.walk = DDformatWalk(f.ds, f.free, f.enablePackedCopy)]
  IN IF ~m.ok THEN [f0 EXCEPT !.totalPushError = @ + 2, !.ret = -1]
     ELSE LET f1 == DDsendMessage(f0, m)
          IN IF f1.ret # 0 THEN [f1 EXCEPT !.totalPushError = @ + 1] ELSE f1

\* a ConsumerFMQchannel after its constructor; cfgEnableRawFormat is the
\* configuration parameter enableRawFormat
FmCreated(cfgEnableRawFormat, packed) ==
  [ enableRawFormat |-> cfgEnableRawFormat = 1,
    enableStfSuperpage |-> cfgEnableRawFormat = 2,
    enableRawFormatDatablock |-> cfgEnableRawFormat = 3,
    enablePackedCopy |-> packed,
    free |-> FmtPoolPages, ds |-> << >>, pushed |-> FALSE, msg |-> NoMessage,
    walk |-> NoHeaderPage(0, packed),
    backOfEmpty |-> FALSE,
    transportUp |-> TRUE, wire |-> << >>, ret |-> 0, nPushData |-> 0,
    totalPushError |-> 0, totalPushSuccess |-> 0 ]

\* the aggregator adds a page of the dataset's timeframe, link and equipment
FmAddPage ==
  /\ ~fm.pushed /\ Len(fm.ds) < MaxDsPages
  /\ \E pkts \in PacketSeqs :
       fm' = [fm EXCEPT !.ds = Append(@, [header |-> HomeHeader, packets |-> pkts])]
  /\ UNCHANGED << eq, now, rq, cx, pg, fq, db >>

\* a page of another timeframe, link or equipment gets into the dataset
FmAddForeignPage ==
  /\ ~fm.pushed /\ Len(fm.ds) < MaxDsPages /\ fm.ds # << >>
  /\ \E h \in ForeignHeaders :
       fm' = [fm EXCEPT !.ds = Append(@, [header |-> h,
                                          packets |-> << [orbit |-> 1, size |-> 400] >>])]
  /\ UNCHANGED << eq, now, rq, cx, pg, fq, db >>

\* the format pushData takes for the dataset
UsesStfSuperpage(f) == f.enableStfSuperpage \/ ~f.ds[1].header.isRdhFormat

\* pushData(ds)
FmPushData ==
  /\ ~fm.pushed /\ fm.ds # << >> /\ fm.nPushData < MaxPushData
  /\ LET f == [fm EXCEPT !.pushed = TRUE, !.nPushData = @ + 1]
     IN fm' = IF f.enableRawFormat THEN PushRaw(f)
              ELSE IF f.enableRawFormatDatablock THEN PushRawDatablock(f)
              ELSE IF UsesStfSuperpage(f) THEN PushStfSuperpage(f)
              ELSE processForDataDistribution(f)
  /\ UNCHANGED << eq, now, rq, cx, pg, fq, db >>

InitFmt ==
  /\ now = 0 /\ db = Unused /\ fq = Unused /\ eq = Unused /\ rq = Unused /\ cx = Unused /\ pg = Unused
  /\ \E cfgEnableRawFormat \in {0, 2}, packed \in BOOLEAN, free \in 0..FmtPoolPages :
       fm = [FmCreated(cfgEnableRawFormat, packed) EXCEPT !.free = free]
NextFmt == FmAddPage \/ FmAddForeignPage \/ FmPushData
SpecFmt == InitFmt /\ [][NextFmt]_vars

\* The four output formats, the flags of the pages and the result of Send
SmallPayloads == { << >>, << [orbit |-> 1, size |-> 400] >> }

\* the aggregator adds a page, empty or not, in RDH format or not, flagged as
\* the end of its timeframe or not
FmAddFlaggedPage ==
  /\ ~fm.pushed /\ Len(fm.ds) < MaxDsPages
  /\ \E pkts \in SmallPayloads, eotf \in BOOLEAN, rdhFormat \in BOOLEAN :
       fm' = [fm EXCEPT !.ds = Append(@,
                [header |-> [HomeHeader EXCEPT !.flagEndOfTimeframe = eotf,
                                               !.isRdhFormat = rdhFormat],
                 packets |-> pkts])]
  /\ UNCHANGED << eq, now, rq, cx, pg, fq, db >>

\* the peer of the channel goes away or comes back
FmTransportFlip ==
  /\ ~fm.pushed
  /\ fm' = [fm EXCEPT !.transportUp = ~@]
  /\ UNCHANGED << eq, now, rq, cx, pg, fq, db >>

\* pushData has returned: the peer takes what was sent, the pages of the
\* messages come back, and the aggregator starts the next dataset
FmNextDataset ==
  /\ fm.pushed /\ fm.nPushData < MaxPushData
  /\ fm' = [fm EXCEPT !.pushed = FALSE, !.ds = << >>, !.msg = NoMessage,
                      !.walk = NoHeaderPage(0, fm.enablePackedCopy),
                      !.backOfEmpty = FALSE,
                      !.wire = << >>]
  /\ UNCHANGED << eq, now, rq, cx, pg, fq, db >>

InitOut ==
  /\ now = 0 /\ db = Unused /\ fq = Unused /\ eq = Unused /\ rq = Unused /\ cx = Unused /\ pg = Unused
  /\ \E cfgEnableRawFormat \in 0..3 : fm = FmCreated(cfgEnableRawFormat, TRUE)
NextOut == FmAddFlaggedPage \/ FmTransportFlip \/ FmPushData \/ FmNextDataset
SpecOut == InitOut /\ [][NextOut]_vars

\* pushData with a dataset of no page. The raw formats loop over nothing.
\* isRdhFormat stays false, so the other formats take the StfSuperpage
\* branch: bc->back() is evaluated on the empty list, and lastTFMessage is
\* whatever that read gives (back); the message is the STF header alone.
pushDataEmpty(f, back) ==
  IF f.enableRawFormat \/ f.enableRawFormatDatablock
  THEN [f EXCEPT !.totalPushSuccess = @ + 1, !.ret = 0]
  ELSE IF f.free = 0
  THEN [f EXCEPT !.totalPushError = @ + 1, !.ret = -1]
  ELSE LET m == [ok |-> TRUE,
                 hdr |-> [StfHeaderDefaults EXCEPT !.lastTFMessage = LastTFMessage(back)],
                 parts |-> << >>]
       IN [Send([f EXCEPT !.msg = m, !.backOfEmpty = TRUE], WireOf(m)) EXCEPT
             !.totalPushSuccess = @ + 1, !.ret = 0]

FmPushEmpty ==
  /\ ~fm.pushed /\ fm.ds = << >> /\ fm.nPushData < MaxPushData
  /\ \E back \in BOOLEAN :
       fm' = pushDataEmpty([fm EXCEPT !.pushed = TRUE, !.nPushData = @ + 1], back)
  /\ UNCHANGED << eq, now, rq, cx, pg, fq, db >>

InitEmpty ==
  /\ now = 0 /\ db = Unused /\ fq = Unused /\ eq = Unused /\ rq = Unused
  /\ cx = Unused /\ pg = Unused
  /\ \E cfgEnableRawFormat \in 0..3, free \in 0..FmtPoolPages :
       fm = [FmCreated(cfgEnableRawFormat, TRUE) EXCEPT !.free = free]
NextEmpty == NextOut \/ FmPushEmpty
SpecEmpty == InitEmpty /\ [][NextEmpty]_vars

\* pushData has returned for a dataset of no page
EmptyPushed == fm.pushed /\ fm.ds = << >>
NoPayloadSent ==
  \A i \in 1..Len(fm.wire) :
    \A k \in 1..Len(fm.wire[i]) : fm.wire[i][k].kind = "stfHeader"

\* C38: for a dataset of no page pushData, in each of its formats, reads
\* neither the first nor the last element of the list of pages, and sends no
\* payload part
C38_EmptyDatasetNotRead ==
  EmptyPushed => (~fm.backOfEmpty /\ NoPayloadSent)

\* what holds: no payload part is sent, and the raw formats read nothing
EmptyDatasetNoPayload ==
  EmptyPushed =>
    /\ NoPayloadSent
    /\ (fm.enableRawFormat \/ fm.enableRawFormatDatablock)
         => (~fm.backOfEmpty /\ fm.wire = << >>)

----------------------------------------------------------------------------
(* Properties of the messages that carry an STF header *)

\* the message of the dataset has been built and handed to the transport
FmSent == fm.pushed /\ fm.msg.ok

\* C9: every payload part is made of bytes of pages whose header carries the
\* timeframe, link and equipment of the STF header
C9_PartsShareStfHeader ==
  FmSent =>
    \A k \in 1..Len(fm.msg.parts) :
      \A j \in 1..Len(fm.msg.parts[k].frames) :
        LET h == fm.ds[fm.msg.parts[k].frames[j].page].header
        IN /\ h.timeframeId = fm.msg.hdr.timeframeId
           /\ h.linkId = fm.msg.hdr.linkId
           /\ h.equipmentId = fm.msg.hdr.equipmentId

\* the packets of the dataset in order, each with its page and byte range
RECURSIVE PagePackets(_, _, _, _)
PagePackets(ix, pkts, k, offset) ==
  IF k > Len(pkts) THEN << >>
  ELSE << [page |-> ix, start |-> offset, len |-> pkts[k].size,
           orbit |-> pkts[k].orbit] >>
       \o PagePackets(ix, pkts, k + 1, offset + pkts[k].size)

RECURSIVE AllPackets(_, _)
AllPackets(ds, ix) ==
  IF ix > Len(ds) THEN << >>
  ELSE PagePackets(ix, ds[ix].packets, 1, 0) \o AllPackets(ds, ix + 1)

\* packet i of the list starts a heartbeat frame
StartsFrame(ps, i) == i = 1 \/ ps[i].orbit # ps[i - 1].orbit
\* the packets of the frame that starts at packet i: the maximal run
FrameEnd(ps, i) ==
  CHOOSE e \in i..Len(ps) :
    /\ \A j \in i..e : ps[j].orbit = ps[i].orbit
    /\ e = Len(ps) \/ ps[e + 1].orbit # ps[i].orbit
FrameStarts(ps) == { i \in 1..Len(ps) : StartsFrame(ps, i) }
\* the i-th smallest element of a set of numbers
RECURSIVE Nth(_, _)
Nth(S, i) ==
  LET m == CHOOSE x \in S : \A y \in S : x <= y
  IN IF i = 1 THEN m ELSE Nth(S \ {m}, i - 1)
PartSize(part) == SumFrames(part.frames)
PartPages(part) == { part.frames[j].page : j \in 1..Len(part.frames) }

\* C10: after the STF header the message has one part per heartbeat frame,
\* made of exactly the bytes of the frame's packets in order, a reference into
\* the page when the frame lies in one page and one fresh copy otherwise
C10_OnePartPerHBF ==
  (FmSent /\ ~UsesStfSuperpage(fm)) =>
    LET ps == AllPackets(fm.ds, 1)
        starts == FrameStarts(ps)
    IN /\ Len(fm.msg.parts) = Cardinality(starts)
       /\ \A k \in 1..Len(fm.msg.parts) :
            LET part == fm.msg.parts[k]
                first == Nth(starts, k)
                last == FrameEnd(ps, first)
                pages == { ps[j].page : j \in first..last }
            IN /\ PartPages(part) = pages
               /\ Len(part.frames) = Cardinality(pages)
               /\ \A j \in 1..Len(part.frames) :
                    LET f == part.frames[j]
                        mine == { i \in first..last : ps[i].page = f.page }
                        lo == CHOOSE i \in mine : \A y \in mine : i <= y
                    IN /\ f.start = ps[lo].start
                       /\ f.len = SumFrames([i \in 1..Cardinality(mine) |-> ps[lo + i - 1]])
               /\ \A j \in 1..(Len(part.frames) - 1) :
                    part.frames[j].page < part.frames[j + 1].page
               /\ part.kind = IF Cardinality(pages) = 1 THEN "ref" ELSE "copy"

\* two pages of 800 and 400 bytes with one orbit give one part of 1200 bytes
C10_Witness ==
  /\ FmSent /\ ~fm.enableStfSuperpage /\ Len(fm.ds) = 2
  /\ DataSize(fm.ds[1]) = 800 /\ Len(fm.ds[1].packets) = 1
  /\ DataSize(fm.ds[2]) = 400 /\ Len(fm.ds[2].packets) = 1
  /\ fm.ds[1].packets[1].orbit = fm.ds[2].packets[1].orbit
  /\ fm.ds[2].header = HomeHeader
  /\ Len(fm.msg.parts) = 1 /\ fm.msg.parts[1].kind = "copy"
  /\ PartSize(fm.msg.parts[1]) = 1200
  /\ fm.msg.parts[1].frames = << [page |-> 1, start |-> 0, len |-> 800],
                                 [page |-> 2, start |-> 0, len |-> 400] >>

\* the pieces of all the parts of a message, in message order
RECURSIVE FlattenParts(_)
FlattenParts(parts) ==
  IF parts = << >> THEN << >>
  ELSE Head(parts).frames \o FlattenParts(Tail(parts))

\* neighbouring pieces that are neighbouring bytes of one page, made one
RECURSIVE Coalesce(_)
Coalesce(frames) ==
  IF Len(frames) <= 1 THEN frames
  ELSE LET a == frames[1]
           b == frames[2]
       IN IF a.page = b.page /\ a.start + a.len = b.start
          THEN Coalesce(<< [a EXCEPT !.len = a.len + b.len] >>
                        \o SubSeq(frames, 3, Len(frames)))
          ELSE << a >> \o Coalesce(Tail(frames))

NonEmptyFrame(f) == f.len > 0
\* the payload of the dataset: bytes [0, dataSize) of each page, in order
PayloadOf(ds) ==
  SelectSeq([k \in 1..Len(ds) |-> [page |-> k, start |-> 0, len |-> DataSize(ds[k])]],
            NonEmptyFrame)

\* the pieces of a part lie back to back in it, from its first byte on
PartIsContiguous(part) ==
  /\ Len(part.dst) = Len(part.frames)
  /\ \A j \in 1..Len(part.frames) :
       part.dst[j] = SumFrames(SubSeq(part.frames, 1, j - 1))

\* C11: the payload parts of an STF/HBF message, one after the other, are the
\* payload bytes of the pages of the dataset in dataset order, nothing lost,
\* doubled or moved, for parts sent in place and for repacked parts
C11_PayloadPreserved ==
  (FmSent /\ ~UsesStfSuperpage(fm)) =>
    /\ \A k \in 1..Len(fm.msg.parts) : PartIsContiguous(fm.msg.parts[k])
    /\ Coalesce(FlattenParts(fm.msg.parts)) = PayloadOf(fm.ds)

\* three pages: a frame sent in place and a frame repacked from two pages
C11_Witness ==
  /\ FmSent /\ ~fm.enableStfSuperpage /\ Len(fm.ds) = 3
  /\ \E k \in 1..Len(fm.msg.parts) : fm.msg.parts[k].kind = "ref"
  /\ \E k \in 1..Len(fm.msg.parts) :
       /\ fm.msg.parts[k].kind = "copy"
       /\ fm.msg.parts[k].dst = << 0, 800 >>
  /\ Len(PayloadOf(fm.ds)) = 3

----------------------------------------------------------------------------
(* Properties of the output formats *)

\* pushData has run in the default format (enableRawFormat = 0)
DefaultFormat ==
  ~fm.enableRawFormat /\ ~fm.enableRawFormatDatablock /\ ~fm.enableStfSuperpage
\* an STF message has been built for the dataset
StfBuilt == fm.pushed /\ fm.msg.ok

\* C12: a page with dataSize 0 gives no payload part to an STF message, and
\* in the default format the dataset of one empty page flagged end of
\* timeframe goes out as one message of one part, the STF header with
\* lastTFMessage = 1
C12_EmptyPageNoPart ==
  StfBuilt =>
    /\ \A k \in 1..Len(fm.msg.parts) :
         \A j \in 1..Len(fm.msg.parts[k].frames) :
           DataSize(fm.ds[fm.msg.parts[k].frames[j].page]) > 0
    /\ ( /\ DefaultFormat /\ Len(fm.ds) = 1 /\ DataSize(fm.ds[1]) = 0
         /\ fm.ds[1].header.flagEndOfTimeframe /\ fm.transportUp )
       => /\ Len(fm.wire) = 1
          /\ fm.wire[1] = << StfHeaderPart([StfHeaderOf(fm.ds) EXCEPT !.lastTFMessage = 1]) >>

\* C13: lastTFMessage is 1 exactly when some block of the dataset is flagged
\* end of timeframe, in STF/HBF and in StfSuperpage format
C13_LastTFMessageIffAnyFlag ==
  StfBuilt => ((fm.msg.hdr.lastTFMessage = 1) <=> AnyEndOfTimeframe(fm.ds))

\* the dataSize payload bytes of page k, as one part
WholePayload(ds, k) ==
  [kind |-> "ref", dst |-> << 0 >>,
   frames |-> << [page |-> k, start |-> 0, len |-> SumSizes(ds[k].packets)] >>]

\* C14: Raw format sends one single-part message per page of the dataset, in
\* order and without STF header; StfSuperpage format sends one message, the
\* STF header and then one part per page in order, each part the dataSize
\* payload bytes of its page
C14_OnePartPerPage ==
  (fm.pushed /\ fm.transportUp) =>
    /\ fm.enableRawFormat =>
         fm.wire = [k \in 1..Len(fm.ds) |-> << WholePayload(fm.ds, k) >>]
    /\ (fm.enableStfSuperpage /\ fm.msg.ok) =>
         /\ Len(fm.wire) = 1
         /\ Len(fm.wire[1]) = 1 + Len(fm.ds)
         /\ fm.wire[1][1].kind = "stfHeader"
         /\ \A k \in 1..Len(fm.ds) : fm.wire[1][1 + k] = WholePayload(fm.ds, k)

\* three pages, one of them empty, in StfSuperpage format
C14_Witness ==
  /\ fm.pushed /\ fm.transportUp /\ fm.enableStfSuperpage /\ fm.msg.ok
  /\ Len(fm.ds) = 3 /\ DataSize(fm.ds[1]) = 400 /\ DataSize(fm.ds[2]) = 0
  /\ DataSize(fm.ds[3]) = 400
  /\ Len(fm.wire) = 1 /\ Len(fm.wire[1]) = 4

\* the timeframes of the pages of a dataset
TimeframesOf(ds) == { ds[k].header.timeframeId : k \in 1..Len(ds) }

\* C15: in STF/HBF format a dataset with pages of two timeframes is refused:
\* nothing of it is sent, totalPushError counts it and pushData returns an
\* error
C15_MixedTimeframesRejected ==
  ( /\ fm.pushed /\ DefaultFormat /\ ~UsesStfSuperpage(fm)
    /\ Cardinality(TimeframesOf(fm.ds)) > 1 )
  => (fm.wire = << >> /\ fm.totalPushError > 0 /\ fm.ret # 0)

\* a call of pushData in which the transport reports a send failure for a
\* message
SendFailureStep ==
  /\ fm'.nPushData = fm.nPushData + 1
  /\ SendReportsFailure(fm)
  /\ (fm.enableRawFormat \/ fm.enableRawFormatDatablock \/ fm'.msg.ok)

\* C16: in every format a send failure is counted in totalPushError and not in
\* totalPushSuccess
C16_SendFailureCounted ==
  [][SendFailureStep =>
       /\ fm'.totalPushError > fm.totalPushError
       /\ fm'.totalPushSuccess = fm.totalPushSuccess]_vars


\* The sizes DDformatMessage keeps of the message

RECURSIVE SumPartSizes(_)
SumPartSizes(parts) ==
  IF parts = << >> THEN 0 ELSE PartSize(Head(parts)) + SumPartSizes(Tail(parts))
RECURSIVE SumDataSizes(_)
SumDataSizes(ds) ==
  IF ds = << >> THEN 0 ELSE DataSize(Head(ds)) + SumDataSizes(Tail(ds))

\* C37: for a dataset that DDformatMessage has formatted, the sizes of the
\* parts of the message add up to the size of the STF header plus the
\* dataSize of the pages, and subTimeframeFMQSize and subTimeframeTotalSize
\* are both that number
C37_PartSizesAddUp ==
  (FmSent /\ ~UsesStfSuperpage(fm)) =>
    /\ fm.walk.subTimeframeDataSize = SumDataSizes(fm.ds)
    /\ SubTimeframeSize + SumPartSizes(fm.msg.parts)
         = SubTimeframeSize + fm.walk.subTimeframeDataSize
    /\ fm.walk.subTimeframeFMQSize = SubTimeframeSize + SumPartSizes(fm.msg.parts)
    /\ fm.walk.subTimeframeTotalSize = fm.walk.subTimeframeFMQSize

\* a message with a part sent in place and a copied part
C37_Witness ==
  /\ FmSent /\ ~UsesStfSuperpage(fm)
  /\ \E k \in 1..Len(fm.msg.parts) : fm.msg.parts[k].kind = "copy"
  /\ \E k \in 1..Len(fm.msg.parts) : fm.msg.parts[k].kind = "ref"
  /\ fm.walk.subTimeframeFMQSize = SubTimeframeSize + 2000

\* The pages that receive the copies of the frames that span source pages

MaxScratchPages == 4   \* pages in a dataset of whole heartbeat frames

\* a page that holds one packet of a heartbeat frame; the timeframes are one
\* orbit long, so that the orbit of the packet gives the timeframe of the page
FramePages ==
  { [header |-> [HomeHeader EXCEPT !.timeframeId = o],
     packets |-> << [orbit |-> o, size |-> l] >>] : o \in {1, 2}, l \in PacketSizes }
\* the datasets whose pages come in the order of their timeframes
FrameDatasets ==
  { ds \in UNION { [1..n -> FramePages] : n \in 1..MaxScratchPages } :
      \A k \in 1..(Len(ds) - 1) :
        ds[k].header.timeframeId <= ds[k + 1].header.timeframeId }

\* pushData is called in STF/HBF format with such a dataset
InitScratch ==
  /\ now = 0 /\ db = Unused /\ fq = Unused /\ eq = Unused /\ rq = Unused /\ cx = Unused /\ pg = Unused
  /\ \E ds \in FrameDatasets, free \in 0..FmtPoolPages :
       fm = [FmCreated(0, TRUE) EXCEPT !.ds = ds, !.free = free]
SpecScratch == InitScratch /\ [][FmPushData]_vars

\* DDformatMessage has run for the dataset with enablePackedCopy = 1
PackedFormatDone ==
  /\ fm.pushed /\ ~fm.enableRawFormat /\ ~fm.enableRawFormatDatablock
  /\ ~UsesStfSuperpage(fm) /\ fm.enablePackedCopy /\ fm.msg.ok
CopyParts == { k \in 1..Len(fm.msg.parts) : fm.msg.parts[k].kind = "copy" }
\* the copy before copy k, 0 when k is the first
CopyBefore(k) ==
  LET before == { j \in CopyParts : j < k }
  IN IF before = {} THEN 0 ELSE CHOOSE j \in before : \A i \in before : i <= j
\* the bytes of the copies up to part j that lie in the page of part j
RECURSIVE ScratchUsed(_, _)
ScratchUsed(j, i) ==
  IF i = 0 THEN 0
  ELSE ScratchUsed(j, i - 1)
       + (IF i \in CopyParts /\ fm.walk.scratchOf[i] = fm.walk.scratchOf[j]
          THEN PartSize(fm.msg.parts[i]) ELSE 0)
TailLeft(j) == FmtPageSize - ScratchUsed(j, j)
PartTimeframes(k) ==
  { fm.ds[page].header.timeframeId : page \in PartPages(fm.msg.parts[k]) }
\* the timeframes of the bytes copied into scratch page b
ScratchTimeframes(b) ==
  UNION { PartTimeframes(k) : k \in { i \in CopyParts : fm.walk.scratchOf[i] = b } }

\* C22: with enablePackedCopy = 1 a copy goes to the scratch page of the copy
\* before it when its size fits in the tail of that page and no timeframe
\* boundary lies between the two, and to a new page of the pool otherwise; and
\* no scratch page holds bytes of two timeframes
C22_ScratchPageOfOneTimeframe ==
  PackedFormatDone =>
    /\ \A k \in CopyParts :
         LET j == CopyBefore(k)
         IN fm.walk.scratchOf[k] =
              IF j = 0 THEN 1
              ELSE IF /\ PartSize(fm.msg.parts[k]) <= TailLeft(j)
                      /\ PartTimeframes(k) = PartTimeframes(j)
                   THEN fm.walk.scratchOf[j]
                   ELSE fm.walk.scratchOf[j] + 1
    /\ \A b \in 1..fm.walk.scratchPages : Cardinality(ScratchTimeframes(b)) = 1

\* what holds of the scratch pages: the page is chosen by size alone, each
\* call of DDformatMessage starts without one, and each one comes from the pool
ScratchPageChosenBySize ==
  PackedFormatDone =>
    /\ \A k \in CopyParts :
         LET j == CopyBefore(k)
         IN fm.walk.scratchOf[k] =
              IF j = 0 THEN 1
              ELSE IF PartSize(fm.msg.parts[k]) <= TailLeft(j)
                   THEN fm.walk.scratchOf[j]
                   ELSE fm.walk.scratchOf[j] + 1
    /\ \A k \in 1..Len(fm.msg.parts) :
         k \notin CopyParts => fm.walk.scratchOf[k] = NoScratch
    /\ fm.walk.scratchPages = Cardinality({ fm.walk.scratchOf[k] : k \in CopyParts })
    /\ fm.walk.free = fm.free - 1 - fm.walk.scratchPages
\* two copies of one timeframe in one scratch page, and two that take two pages
TwoCopiesShareScratch ==
  /\ PackedFormatDone /\ Cardinality(CopyParts) = 2 /\ fm.walk.scratchPages = 1
  /\ \A k \in 1..Len(fm.ds) : fm.ds[k].header = HomeHeader
TwoCopiesTwoScratch ==
  /\ PackedFormatDone /\ Cardinality(CopyParts) = 2 /\ fm.walk.scratchPages = 2
  /\ \A k \in 1..Len(fm.ds) : fm.ds[k].header = HomeHeader

----------------------------------------------------------------------------
(* ConsumerFMQchannel with worker threads: processForDataDistribution,      *)
(* wThreadLoop, senderThreadLoop and the acknowledgements of the transport  *)

MaxThreads == 2        \* nwThreads is 1..MaxThreads
QueueBudget == 2       \* slots shared out among the worker queues (88 in the program)
DispPoolPages == 2     \* pages of the dispatcher's pool
MaxDatasets == 5       \* datasets passed to pushData
MaxTf == 4             \* timeframe ids of the datasets
MaxFrameDatasets == 4  \* datasets passed to pushData, with frames in one page or two
MaxOrderDatasets == 3  \* datasets passed to pushData, with timeframes in any order

NullBuffer == [isNull |-> TRUE, sets |-> << >>]
NewBuffer == [isNull |-> FALSE, sets |-> << >>]

\* a ConsumerFMQchannel after its constructor, with n worker threads
\* the pages of a dataset of timeframe tf: one page with one packet, or two
\* pages that share a heartbeat frame
PlainPages(tf) ==
  << [header |-> [HomeHeader EXCEPT !.timeframeId = tf],
      packets |-> << [orbit |-> 1, size |-> 400] >>] >>
SplitPages(tf) == PlainPages(tf) \o PlainPages(tf)

\* no call of DDformatMessage has failed yet
NoAbort == [timeframeId |-> undefinedTimeframeId, err |-> "none", formatted |-> 0,
            released |-> 0, pendingHeld |-> 0]

CxCreated(n) ==
  [ nwThreads |-> n,
    enablePackedCopy |-> TRUE,
    lastAbort |-> NoAbort,
    wThreadFifoSize |-> QueueBudget \div n,
    currentTimeframeId |-> undefinedTimeframeId,
    currentTimeframeBuffer |-> NullBuffer,
    wThreadIxWrite |-> 0,
    input |-> [i \in 0..(n - 1) |-> << >>],
    output |-> [i \in 0..(n - 1) |-> << >>],
    wpc |-> [i \in 0..(n - 1) |-> "check"],
    spc |-> "run",
    wThreadShutdown |-> FALSE,
    cleanup |-> "idle",
    handed |-> << >>,
    accepted |-> [t \in 1..MaxTf |-> 0],
    warnings |-> << >>,
    offered |-> << >>,
    thIx |-> 0,
    free |-> DispPoolPages,
    unacked |-> << >>,
    sent |-> << >>,
    totalPushError |-> 0,
    totalPushSuccess |-> 0,
    lastPushed |-> undefinedTimeframeId,
    nPushData |-> 0 ]

\* pushCurrentTimeframe: the buffer goes to the next worker in turn, or stays
\* where it is when that worker's input queue is full
\* handed is the history of the buffers given to the workers
NextWorkerStays(ix, n) == ix
NextWorker(ix, n) == IF ix + 1 = n THEN 0 ELSE ix + 1
pushCurrentTimeframe(c) ==
  IF c.currentTimeframeBuffer.isNull THEN c
  ELSE IF FifoIsFull(c.input[c.wThreadIxWrite], c.wThreadFifoSize)
  THEN [c EXCEPT !.totalPushError = @ + 1]
  ELSE [c EXCEPT !.input[c.wThreadIxWrite] = Append(@, c.currentTimeframeBuffer.sets),
                 !.handed = Append(@, [worker |-> c.wThreadIxWrite,
                                       sets |-> c.currentTimeframeBuffer.sets]),
                 !.currentTimeframeBuffer = NullBuffer,
                 !.wThreadIxWrite = NextWorker(@, c.nwThreads)]

\* the test for the warning "TF %d following TF %d: non-continuous ordering"
\* warnings is the history of the timeframes the warning was logged for
NonContinuousNever(current, new) == FALSE
NonContinuous(current, new) ==
  current # undefinedTimeframeId /\ new # current + 1

\* processForDataDistribution with nwThreads > 0, for a dataset of the given
\* pages whose first block has timeframe tf and whose last block has
\* timeframe tfLast and flagEndOfTimeframe eotf
processForDataDistributionThreaded(c, tf, tfLast, eotf, pages) ==
  IF tf # tfLast THEN [c EXCEPT !.totalPushError = @ + 1]
  ELSE LET c1 == IF tf # c.currentTimeframeId
                 THEN [pushCurrentTimeframe(c) EXCEPT
                         !.currentTimeframeBuffer = NewBuffer,
                         !.warnings = IF NonContinuous(c.currentTimeframeId, tf)
                                      THEN Append(@, tf) ELSE @,
                         !.currentTimeframeId = tf]
                 ELSE c
       IN IF c1.currentTimeframeBuffer.isNull
          THEN [c1 EXCEPT !.totalPushError = @ + 1]
          ELSE LET c2 == [c1 EXCEPT !.currentTimeframeBuffer.sets =
                                       Append(@, [timeframeId |-> tf,
                                                  pages |-> pages]),
                                    !.accepted[tf] = @ + 1]
               IN IF eotf THEN pushCurrentTimeframe(c2) ELSE c2

\* the producer calls pushData with the next dataset, timeframes in
\* non-decreasing order
CxPushData ==
  /\ cx.cleanup = "idle"
  /\ cx.nPushData < MaxDatasets
  /\ \E tf \in {Max(cx.lastPushed, 1), cx.lastPushed + 1} \cap 1..MaxTf,
        mixed \in BOOLEAN, eotf \in BOOLEAN :
       cx' = [processForDataDistributionThreaded(
                 cx, tf, IF mixed THEN tf + 1 ELSE tf, eotf, PlainPages(tf))
              EXCEPT !.lastPushed = tf, !.nPushData = @ + 1]
  /\ UNCHANGED << eq, now, rq, fm, pg, fq, db >>

\* the producer calls pushData with a dataset of one timeframe, whose
\* heartbeat frame lies in one page or in two
CxPushFrames ==
  /\ cx.cleanup = "idle"
  /\ cx.nPushData < MaxFrameDatasets
  /\ \E tf \in {Max(cx.lastPushed, 1), cx.lastPushed + 1} \cap 1..MaxTf,
        split \in BOOLEAN, eotf \in BOOLEAN :
       cx' = [processForDataDistributionThreaded(
                 cx, tf, tf, eotf, IF split THEN SplitPages(tf) ELSE PlainPages(tf))
              EXCEPT !.lastPushed = tf, !.nPushData = @ + 1]
  /\ UNCHANGED << eq, now, rq, fm, pg, fq, db >>

\* DDformatMessage for datasets of one page: each message takes a page of the
\* pool for its STF header, and none is built when the pool runs out
FormatFails(nSets, free) == nSets > free

\* processForDataDistribution with nwThreads = 0, for a dataset of one page
\* of timeframe tf: the message is built and sent at once
processForDataDistributionInline(c, tf) ==
  IF FormatFails(1, c.free) THEN [c EXCEPT !.totalPushError = @ + 2]
  ELSE [c EXCEPT !.free = @ - 1,
                 !.sent = Append(@, tf),
                 !.unacked = Append(@, 1),
                 !.totalPushSuccess = @ + 1]

\* the producer calls pushData with a dataset of any timeframe
\* offered is the history of the timeframes of these datasets
CxPushOrdered ==
  /\ cx.nPushData < MaxOrderDatasets
  /\ \E tf \in 1..MaxTf, eotf \in BOOLEAN :
       cx' = [(IF cx.nwThreads = 0
               THEN processForDataDistributionInline(cx, tf)
               ELSE processForDataDistributionThreaded(cx, tf, tf, eotf, PlainPages(tf)))
              EXCEPT !.lastPushed = tf, !.nPushData = @ + 1,
                     !.offered = Append(@, tf)]
  /\ UNCHANGED << eq, now, rq, fm, pg, fq, db >>

\* the test of wThreadShutdown at the top of the loop of a thread
SeesShutdownNever(c) == FALSE
SeesShutdown(c) == c.wThreadShutdown

\* the test of the outgoing FIFO before a timeframe is taken
OutputHasSlotAlways(c, i) == TRUE
OutputHasSlot(c, i) == ~FifoIsFull(c.output[i], c.wThreadFifoSize)

\* output->push(msglist): a full FIFO refuses the list, which is counted and
\* destroyed with its messages
PushOutput(c, i, msglist) ==
  IF FifoIsFull(c.output[i], c.wThreadFifoSize)
  THEN [c EXCEPT !.totalPushError = @ + 1]
  ELSE [c EXCEPT !.output[i] = Append(@, msglist)]

\* wThreadLoop: leave on shutdown, else wait for a slot in the outgoing FIFO
CxWorkerCheck(i) ==
  /\ cx.wpc[i] = "check"
  /\ IF SeesShutdown(cx) THEN cx' = [cx EXCEPT !.wpc[i] = "done"]
     ELSE /\ OutputHasSlot(cx, i)
          /\ cx' = [cx EXCEPT !.wpc[i] = "pop"]
  /\ UNCHANGED << eq, now, rq, fm, pg, fq, db >>

\* the loop of wThreadLoop over the datasets of a timeframe, from dataset k
\* on: DDformatMessage for each, until one fails. A message holds the page of
\* its STF header and the pages of its copies.
RECURSIVE FormatTimeframe(_, _, _, _)
FormatTimeframe(sets, k, r, packed) ==
  IF k > Len(sets) THEN r
  ELSE LET w == DDformatWalk(sets[k].pages, r.free, packed)
       IN IF ~w.ok
          THEN [r EXCEPT !.ok = FALSE,
                         !.abort = [timeframeId |-> sets[k].timeframeId,
                                    err |-> w.err, formatted |-> k - 1,
                                    released |-> w.released,
                                    pendingHeld |-> Len(w.pendingFrames)]]
          ELSE FormatTimeframe(sets, k + 1,
                 [r EXCEPT !.free = w.free,
                           !.msglist = Append(@, [timeframeId |-> sets[k].timeframeId,
                                                  pagesHeld |-> r.free - w.free])],
                 packed)

\* wThreadLoop: take a timeframe, format its datasets, queue the messages; a
\* failure is counted by DDformatMessage and once more by the loop, and the
\* messages built so far go with msglist, their pages back to the pool
wThreadLoopBody(c, i) ==
  IF FifoIsEmpty(c.input[i]) THEN [c EXCEPT !.wpc[i] = "check"]
  ELSE LET tf == Head(c.input[i])
           r == FormatTimeframe(tf, 1, [ok |-> TRUE, free |-> c.free,
                                        msglist |-> << >>, abort |-> NoAbort],
                                c.enablePackedCopy)
       IN IF ~r.ok
          THEN [c EXCEPT !.input[i] = Tail(@), !.wpc[i] = "check",
                         !.lastAbort = r.abort,
                         !.totalPushError = @ + 2]
          ELSE IF FifoIsFull(c.output[i], c.wThreadFifoSize)
          THEN PushOutput([c EXCEPT !.input[i] = Tail(@), !.wpc[i] = "check"],
                          i, r.msglist)
          ELSE PushOutput([c EXCEPT !.input[i] = Tail(@), !.wpc[i] = "check",
                                    !.free = r.free],
                          i, r.msglist)
CxWorkerFormat(i) ==
  /\ cx.wpc[i] = "pop"
  /\ cx' = wThreadLoopBody(cx, i)
  /\ UNCHANGED << eq, now, rq, fm, pg, fq, db >>

\* wThreadLoop for timeframes whose datasets have one page each
CxWorkerProcess(i) ==
  /\ cx.wpc[i] = "pop"
  /\ cx' =
       IF FifoIsEmpty(cx.input[i]) THEN [cx EXCEPT !.wpc[i] = "check"]
       ELSE LET tf == Head(cx.input[i])
            IN IF FormatFails(Len(tf), cx.free)
               THEN [cx EXCEPT !.input[i] = Tail(@), !.wpc[i] = "check",
                               !.totalPushError = @ + 2]
               ELSE LET msglist == [k \in 1..Len(tf) |->
                                      [timeframeId |-> tf[k].timeframeId,
                                       pagesHeld |-> 1]]
                    IN IF FifoIsFull(cx.output[i], cx.wThreadFifoSize)
                       THEN PushOutput([cx EXCEPT !.input[i] = Tail(@),
                                                  !.wpc[i] = "check"],
                                       i, msglist)
                       ELSE PushOutput([cx EXCEPT !.input[i] = Tail(@),
                                                  !.wpc[i] = "check",
                                                  !.free = @ - Len(tf)],
                                       i, msglist)
  /\ UNCHANGED << eq, now, rq, fm, pg, fq, db >>

\* senderThreadLoop: take the next message list from the worker whose turn it
\* is and send its messages
CxSender ==
  /\ cx.spc = "run" /\ ~SeesShutdown(cx)
  /\ ~FifoIsEmpty(cx.output[cx.thIx])
  /\ LET msglist == Head(cx.output[cx.thIx])
     IN cx' = [cx EXCEPT !.output[cx.thIx] = Tail(@),
                         !.thIx = (@ + 1) % cx.nwThreads,
                         !.sent = @ \o [k \in 1..Len(msglist) |-> msglist[k].timeframeId],
                         !.unacked = @ \o [k \in 1..Len(msglist) |-> msglist[k].pagesHeld],
                         !.totalPushSuccess = @ + Len(msglist)]
  /\ UNCHANGED << eq, now, rq, fm, pg, fq, db >>

\* the transport acknowledges a message: msgcleanupCallback drops the handles
\* of its STF header page and of its copies, which return to the pool
CxAck ==
  /\ cx.unacked # << >>
  /\ cx' = [cx EXCEPT !.unacked = Tail(@), !.free = @ + Head(cx.unacked)]
  /\ UNCHANGED << eq, now, rq, fm, pg, fq, db >>

\* senderThreadLoop: leave on shutdown
CxSenderExit ==
  /\ cx.spc = "run" /\ SeesShutdown(cx)
  /\ cx' = [cx EXCEPT !.spc = "done"]
  /\ UNCHANGED << eq, now, rq, fm, pg, fq, db >>

\* cleanupThreads: raise the flag
CxShutdown ==
  /\ cx.cleanup = "idle"
  /\ cx' = [cx EXCEPT !.wThreadShutdown = TRUE, !.cleanup = "join"]
  /\ UNCHANGED << eq, now, rq, fm, pg, fq, db >>

\* cleanupThreads: every join has returned; the FIFOs go with the threads
CxJoin ==
  /\ cx.cleanup = "join"
  /\ \A i \in 0..(cx.nwThreads - 1) : cx.wpc[i] = "done"
  /\ cx.spc = "done"
  /\ cx' = [cx EXCEPT !.cleanup = "done", !.nwThreads = 0,
                      !.input = << >>, !.output = << >>]
  /\ UNCHANGED << eq, now, rq, fm, pg, fq, db >>

CxWorkerStep(i) == i < cx.nwThreads /\ (CxWorkerCheck(i) \/ CxWorkerProcess(i))
CxWorker == \E i \in 0..(MaxThreads - 1) : CxWorkerStep(i)
CxFormatWorker ==
  \E i \in 0..(MaxThreads - 1) :
    i < cx.nwThreads /\ (CxWorkerCheck(i) \/ CxWorkerFormat(i))
CxSenderStep == CxSender \/ CxSenderExit
CxCleanupThreads == CxShutdown \/ CxJoin

InitDisp ==
  /\ now = 0 /\ db = Unused /\ fq = Unused /\ eq = Unused /\ rq = Unused /\ fm = Unused /\ pg = Unused
  /\ \E n \in 1..MaxThreads : cx = CxCreated(n)
NextDisp == CxPushData \/ CxWorker \/ CxSenderStep \/ CxAck \/ CxCleanupThreads
SpecDisp == InitDisp /\ [][NextDisp]_vars

\* the dispatcher without threads and with them, fed with timeframes in any
\* order
InitOrder ==
  /\ now = 0 /\ db = Unused /\ fq = Unused /\ eq = Unused /\ rq = Unused /\ fm = Unused /\ pg = Unused
  /\ \/ cx = [CxCreated(1) EXCEPT !.nwThreads = 0, !.wThreadFifoSize = 0]
     \/ \E n \in 1..MaxThreads : cx = CxCreated(n)
NextOrder == CxPushOrdered \/ CxWorker \/ CxSender \/ CxAck
SpecOrder == InitOrder /\ [][NextOrder]_vars

\* the dispatcher with datasets that need a page for a copy, with and
\* without packed copies
InitAbort ==
  /\ now = 0 /\ db = Unused /\ fq = Unused /\ eq = Unused /\ rq = Unused /\ fm = Unused /\ pg = Unused
  /\ \E n \in 1..MaxThreads, packed \in BOOLEAN :
       cx = [CxCreated(n) EXCEPT !.enablePackedCopy = packed]
NextAbort == CxPushFrames \/ CxFormatWorker \/ CxSender \/ CxAck
SpecAbort == InitAbort /\ [][NextAbort]_vars
\* the threads and the caller of cleanupThreads keep running
SpecDispFair ==
  /\ SpecDisp
  /\ \A i \in 0..(MaxThreads - 1) : WF_vars(CxWorkerStep(i))
  /\ WF_vars(CxSenderStep)
  /\ WF_vars(CxCleanupThreads)

\* a run without shutdown: the producer may stop at any time, the workers,
\* the sender and the transport keep running
NextSend == CxPushData \/ CxWorker \/ CxSender \/ CxAck
SpecSendFair ==
  /\ InitDisp /\ [][NextSend]_vars
  /\ \A i \in 0..(MaxThreads - 1) : WF_vars(CxWorkerStep(i))
  /\ WF_vars(CxSender)
  /\ WF_vars(CxAck)

\* C1: the timeframe ids of the messages handed to the transport never
\* decrease
C1_EgressNonDecreasing ==
  \A i, j \in 1..Len(cx.sent) : i < j => cx.sent[i] <= cx.sent[j]

\* C17: once cleanupThreads() has set wThreadShutdown, every worker and the
\* sender leave their loops, the joins return and cleanupThreads() ends,
\* whatever the worker queues hold
C17_ShutdownTerminates ==
  cx.wThreadShutdown ~> (cx.cleanup = "done")

\* shutdown with a worker gone while an input queue still holds a timeframe
\* and an output queue is full
C17_Witness ==
  /\ cx.wThreadShutdown /\ cx.cleanup = "join"
  /\ \E i \in 0..(cx.nwThreads - 1) : cx.wpc[i] = "done"
  /\ \E i \in 0..(cx.nwThreads - 1) : ~FifoIsEmpty(cx.input[i])
  /\ \E i \in 0..(cx.nwThreads - 1) : FifoIsFull(cx.output[i], cx.wThreadFifoSize)

\* the buffers a call of pushData gives to the workers
HandedInStep == Len(cx'.handed) - Len(cx.handed)
\* the timeframes of the datasets of a buffer
BufferTimeframes(sets) == { sets[k].timeframeId : k \in 1..Len(sets) }

\* a call of pushData moves the worker index by one for each buffer it hands
\* over, and hands over only on a change of timeframe or at the end of one
C20_HandOverStep ==
  (cx.cleanup = "idle" /\ cx'.nPushData = cx.nPushData + 1) =>
    /\ cx'.wThreadIxWrite = (cx.wThreadIxWrite + HandedInStep) % cx.nwThreads
    /\ HandedInStep > 0 =>
         \/ cx'.currentTimeframeId # cx.currentTimeframeId
         \/ cx'.currentTimeframeBuffer.isNull
    /\ (HandedInStep = 0 /\ ~cx.currentTimeframeBuffer.isNull
        /\ cx'.currentTimeframeId = cx.currentTimeframeId)
         => \A k \in 1..Len(cx.currentTimeframeBuffer.sets) :
              cx'.currentTimeframeBuffer.sets[k] = cx.currentTimeframeBuffer.sets[k]

PagesOfDataset(d) == IF Len(d.pages) = 1 THEN 1 ELSE 2
RECURSIVE PagesOfTimeframe(_)
PagesOfTimeframe(sets) ==
  IF sets = << >> THEN 0
  ELSE PagesOfDataset(Head(sets)) + PagesOfTimeframe(Tail(sets))
\* worker i takes a timeframe off its queue and formats it
CxTakes(i) ==
  cx.wpc[i] = "pop" /\ ~FifoIsEmpty(cx.input[i]) /\ cx'.wpc[i] = "check"
\* for datasets of one page the pool alone decides: the loop with
\* DDformatMessage in it does what CxWorkerProcess does
WorkerOfPlainDatasets ==
  [][\A i \in 0..(cx.nwThreads - 1) :
       CxTakes(i) => cx' = [wThreadLoopBody(cx, i) EXCEPT !.lastAbort = cx.lastAbort]]_vars

C21_AbortStep ==
  \A i \in 0..(cx.nwThreads - 1) :
    CxTakes(i) =>
      LET tf == Head(cx.input[i])
      IN IF PagesOfTimeframe(tf) > cx.free
         THEN /\ cx'.output = cx.output /\ cx'.sent = cx.sent
              /\ cx'.unacked = cx.unacked /\ cx'.free = cx.free
              /\ cx'.lastAbort.err = "noPage"
              /\ cx'.lastAbort.pendingHeld = 0
              /\ cx'.totalPushError > cx.totalPushError
              /\ cx'.input[i] = Tail(cx.input[i])
         ELSE /\ cx'.output[i] =
                   Append(cx.output[i],
                          [k \in 1..Len(tf) |->
                             [timeframeId |-> tf[k].timeframeId,
                              pagesHeld |-> PagesOfDataset(tf[k])]])
              /\ cx'.free = cx.free - PagesOfTimeframe(tf)
              /\ cx'.totalPushError = cx.totalPushError

\* C21: when the pool has no page for the STF header or for the copy of a
\* frame while a worker formats a timeframe, nothing of the timeframe reaches
\* the sender, also not the datasets formatted before, no pending piece keeps
\* a page handle, the pages taken go back to the pool, totalPushError grows,
\* and the worker goes on with the next timeframe of its queue, which is
\* formatted and queued whenever the pool has the pages for it
C21_PageFailureAbortsTimeframe == [][C21_AbortStep]_vars

\* the second dataset of a timeframe found no page for its copy, the two
\* pending pieces were released, and a later timeframe has been sent
C21_Witness ==
  /\ cx.lastAbort.err = "noPage" /\ cx.lastAbort.formatted = 1
  /\ cx.lastAbort.released = 2
  /\ \E k \in 1..Len(cx.sent) : cx.sent[k] > cx.lastAbort.timeframeId
\* a dataset found no page for its STF header
HeaderPageMissing ==
  /\ cx.lastAbort.err = "noPage" /\ cx.lastAbort.released = 0
  /\ cx.free = 0

\* C33: a worker takes a timeframe from its input queue only when its output
\* queue has a free slot, and the list of messages of a timeframe it has
\* formatted always enters that queue, whatever the sender does in between
C33_TakeStep ==
  \A i \in 0..(cx.nwThreads - 1) :
    CxTakes(i) =>
      /\ Len(cx.output[i]) < cx.wThreadFifoSize
      /\ Len(Head(cx.input[i])) <= cx.free =>
           /\ Len(cx'.output[i]) = Len(cx.output[i]) + 1
           /\ Len(cx'.output[i][Len(cx'.output[i])]) = Len(Head(cx.input[i]))
           /\ cx'.totalPushError = cx.totalPushError
C33_FormattedTimeframeQueued ==
  /\ [](\A i \in 0..(cx.nwThreads - 1) :
         cx.wpc[i] = "pop" => Len(cx.output[i]) < cx.wThreadFifoSize)
  /\ [][C33_TakeStep]_vars

\* a worker that has queued lists up to the size of its output queue while
\* the sender took one, and waits with a timeframe in its input queue
C33_Witness ==
  /\ cx.nwThreads = 1 /\ cx.sent # << >>
  /\ Len(cx.output[0]) = cx.wThreadFifoSize
  /\ ~FifoIsEmpty(cx.input[0]) /\ cx.wpc[0] = "check"
  /\ cx.totalPushError = 0

\* C34: without shutdown and with every thread running, a list of messages
\* that a worker has put in its output queue is sent in the end, also when
\* the producer pushes nothing more and after a timeframe failed in a worker
\* (the producer pushes a bounded number of datasets, so a queue whose lists
\* are all sent is empty in the end)
C34_QueuedListSent ==
  \A i \in 0..(MaxThreads - 1) :
    (i < cx.nwThreads /\ ~FifoIsEmpty(cx.output[i]))
      ~> (i < cx.nwThreads /\ FifoIsEmpty(cx.output[i]))

\* what holds: the list at the head of the queue the sender is waiting on is
\* sent
SenderTurnServed ==
  \A n \in 0..MaxDatasets :
    (~FifoIsEmpty(cx.output[cx.thIx]) /\ Len(cx.sent) = n) ~> (Len(cx.sent) > n)
\* a list waits in the queue of the second worker, the sender waits on the
\* empty queue of the first, whose timeframe failed, and nothing is left to do
ListLeftBehind ==
  /\ cx.nwThreads = 2 /\ cx.thIx = 0
  /\ FifoIsEmpty(cx.output[0]) /\ ~FifoIsEmpty(cx.output[1])
  /\ FifoIsEmpty(cx.input[0]) /\ FifoIsEmpty(cx.input[1])
  /\ cx.currentTimeframeBuffer.isNull /\ cx.unacked = << >>
  /\ cx.totalPushError = 2

\* timeframe t has been handed to a worker
HandedOver(t) ==
  \E h \in 1..Len(cx.handed) : t \in BufferTimeframes(cx.handed[h].sets)

\* C35: with threads, the datasets accepted into the buffer of the current
\* timeframe are handed to a worker or counted in totalPushError in the end,
\* also those of the last timeframe of a run that no flagEndOfTimeframe and
\* no later dataset closes, and also when the threads are shut down
C35_AcceptedHandedOrCounted ==
  \A t \in 1..MaxTf :
    (cx.accepted[t] > 0) ~> (HandedOver(t) \/ cx.totalPushError > 0)

\* what holds: a timeframe that was closed, by its flagEndOfTimeframe or by
\* a dataset of another timeframe, was handed over or counted
ClosedHandedOrCounted ==
  \A t \in 1..MaxTf :
    (cx.accepted[t] > 0
     /\ (t # cx.currentTimeframeId \/ cx.currentTimeframeBuffer.isNull))
      => (HandedOver(t) \/ cx.totalPushError > 0)
\* the threads are gone and the buffer still holds the last timeframe
BufferLeftAtShutdown ==
  /\ cx.cleanup = "done" /\ ~cx.currentTimeframeBuffer.isNull
  /\ cx.currentTimeframeBuffer.sets # << >> /\ cx.totalPushError = 0
  /\ ~HandedOver(cx.currentTimeframeId)

\* pushData returns in this step, with nothing of the dataset on the channel
PushDataUnsent == fm # Unused /\ ~fm.pushed /\ fm'.pushed /\ fm'.wire = << >>

\* C36: a dataset passed to pushData that is not sent (rejected, not
\* formatted, not sent, or dropped at a full worker queue) adds exactly one
\* to totalPushError, without threads and with them
C36_UnsentCountedOnce ==
  [][PushDataUnsent => fm'.totalPushError = fm.totalPushError + 1]_vars

\* what holds without threads in the STF formats: the dataset is counted,
\* once by pushData in StfSuperpage format, twice in STF/HBF format
UnsentCounted ==
  [][PushDataUnsent =>
       fm'.totalPushError = fm.totalPushError + (IF UsesStfSuperpage(fm') THEN 1 ELSE 2)]_vars

\* with threads, when all that was pushed has been worked off: the datasets
\* that were not sent are as many as totalPushError counts
ThreadedUnsentCountedOnce ==
  (/\ cx.cleanup = "idle" /\ cx.currentTimeframeBuffer.isNull
   /\ \A i \in 0..(cx.nwThreads - 1) :
        FifoIsEmpty(cx.input[i]) /\ FifoIsEmpty(cx.output[i]) /\ cx.wpc[i] = "check")
    => cx.nPushData - Len(cx.sent) = cx.totalPushError

\* s can be had from t by leaving elements out
RECURSIVE IsSubSeq(_, _)
IsSubSeq(s, t) ==
  IF s = << >> THEN TRUE
  ELSE IF t = << >> THEN FALSE
  ELSE IF Head(s) = Head(t) THEN IsSubSeq(Tail(s), Tail(t))
  ELSE IsSubSeq(s, Tail(t))

\* a call of pushData logs the warning exactly for a timeframe that is
\* neither the one of the dataset before nor the one after it
WarningStep ==
  (cx'.nPushData = cx.nPushData + 1) =>
    LET tf == cx'.lastPushed
        gap == /\ cx.lastPushed # undefinedTimeframeId
               /\ tf # cx.lastPushed /\ tf # cx.lastPushed + 1
    IN cx'.warnings = IF gap THEN Append(cx.warnings, tf) ELSE cx.warnings

\* C32: in STF/HBF format, without threads and with them, the warning about
\* non-continuous ordering is logged exactly at each dataset whose timeframe
\* is neither the current one nor the next, never at the first timeframe
\* (once, at 4, for the timeframes 1, 2, 4), and the messages leave in the
\* order of the input
C32_WarningAtEachGap ==
  /\ [][WarningStep]_vars
  /\ [](IsSubSeq(cx.sent, cx.offered))

\* what holds with threads: the warning is logged exactly at the gaps
ThreadedWarningAtEachGap == [][cx.nwThreads > 0 => WarningStep]_vars
\* what holds without threads: the messages leave in the order of the input
InlineInInputOrder == cx.nwThreads = 0 => IsSubSeq(cx.sent, cx.offered)
\* the timeframes 1, 2, 4 went through without threads and left in this order
InlineGapNoWarning ==
  /\ cx.nwThreads = 0 /\ cx.offered = << 1, 2, 4 >> /\ cx.sent = << 1, 2, 4 >>
  /\ cx.warnings = << >>
\* the timeframes 1, 2, 4 went through two workers: one warning, at 4
ThreadedGapOneWarning ==
  /\ cx.nwThreads = 2 /\ cx.offered = << 1, 2, 4 >> /\ cx.sent = << 1, 2, 4 >>
  /\ cx.warnings = << 4 >>

\* without threads: a dataset whose message could not be built leaves nothing
\* on the channel and no pending piece, and is counted
FailedFormatSendsNothing ==
  (fm # Unused /\ fm.pushed /\ ~fm.enableStfSuperpage /\ ~fm.msg.ok) =>
    /\ fm.wire = << >> /\ fm.walk.pendingFrames = << >> /\ fm.walk.free = fm.free
    /\ fm.totalPushError > 0 /\ fm.totalPushSuccess = 0 /\ fm.ret = -1

----------------------------------------------------------------------------
(* Ownership of the pages: DataBlockContainerReference handles, the message *)
(* parts that reference a page, and the release callback of the container   *)

PoolPages == 2         \* pages of the pool
MaxAcquire == 2        \* times a page is taken from the pool
MaxFrames == 2         \* heartbeat frames of a page sent in place

Modes == {"raw", "rawDatablock", "stfSuperpage", "stfHbf"}

FreePage(nAcq, nRel) ==
  [ free |-> TRUE, handles |-> 0, at |-> "pool", pushed |-> FALSE,
    parts |-> << >>, nAcquire |-> nAcq, nRelease |-> nRel ]

\* one copy of the handle goes away; ~DataBlockContainer runs with the last
\* one and its release callback returns the page to the pool
DropHandle(page) ==
  IF page.handles = 1
  THEN [page EXCEPT !.handles = 0, !.free = TRUE, !.at = "pool",
                    !.nRelease = @ + 1]
  ELSE [page EXCEPT !.handles = @ - 1]

\* getNextBlock(): a page leaves the pool in a container, pushed to the
\* equipment output FIFO
PgGetNextBlock(p) ==
  /\ pg.pages[p].free /\ pg.pages[p].nAcquire < MaxAcquire
  /\ pg' = [pg EXCEPT !.pages[p] = [@ EXCEPT !.free = FALSE, !.handles = 1,
                                             !.at = "fifo", !.pushed = FALSE,
                                             !.nAcquire = @ + 1]]
  /\ UNCHANGED << eq, now, rq, fm, cx, fq, db >>

\* getBlock(): the handle moves from the FIFO into a dataset
PgGetBlock(p) ==
  /\ ~pg.pages[p].free /\ pg.pages[p].at = "fifo"
  /\ pg' = [pg EXCEPT !.pages[p].at = "dataset"]
  /\ UNCHANGED << eq, now, rq, fm, cx, fq, db >>

\* the message parts pushData makes of one page: TRUE for a part that got a
\* new handle as hint, FALSE for a part that got none
Hints(mode, nFrames) ==
  IF mode = "rawDatablock" THEN << FALSE, TRUE >>
  ELSE IF mode = "stfHbf" THEN [k \in 1..nFrames |-> TRUE]
  ELSE << TRUE >>

CountHints(hints) == Cardinality({k \in 1..Len(hints) : hints[k]})

\* pushData on the dataset of page p; in STF/HBF format nFrames frames of the
\* page are referenced in place, and the pieces that are copied into another
\* page hold a handle only until the copy is made
PgPushData(p) ==
  /\ ~pg.pages[p].free /\ pg.pages[p].at = "dataset" /\ ~pg.pages[p].pushed
  /\ \E nFrames \in 0..MaxFrames :
       LET hints == Hints(pg.mode, nFrames)
       IN pg' = [pg EXCEPT !.pages[p].pushed = TRUE,
                           !.pages[p].parts = @ \o hints,
                           !.pages[p].handles = @ + CountHints(hints)]
  /\ UNCHANGED << eq, now, rq, fm, cx, fq, db >>

\* the dataset goes out of scope
PgDropDataset(p) ==
  /\ ~pg.pages[p].free /\ pg.pages[p].at = "dataset"
  /\ pg' = [pg EXCEPT !.pages[p] = DropHandle([@ EXCEPT !.at = "transport"])]
  /\ UNCHANGED << eq, now, rq, fm, cx, fq, db >>

RemoveAt(s, k) == SubSeq(s, 1, k - 1) \o SubSeq(s, k + 1, Len(s))

\* msgcleanupCallback: the transport is done with part k of page p
PgAck(p, k) ==
  /\ k <= Len(pg.pages[p].parts)
  /\ LET hint == pg.pages[p].parts[k]
         page == [pg.pages[p] EXCEPT !.parts = RemoveAt(@, k)]
     IN pg' = [pg EXCEPT !.pages[p] = IF hint THEN DropHandle(page) ELSE page]
  /\ UNCHANGED << eq, now, rq, fm, cx, fq, db >>

PgEquipment == \E p \in 1..PoolPages : PgGetNextBlock(p) \/ PgGetBlock(p)
PgConsumer == \E p \in 1..PoolPages : PgPushData(p) \/ PgDropDataset(p)
PgTransport == \E p \in 1..PoolPages : \E k \in 1..(MaxFrames + 2) : PgAck(p, k)

InitPage ==
  /\ now = 0 /\ db = Unused /\ fq = Unused /\ eq = Unused /\ rq = Unused /\ fm = Unused /\ cx = Unused
  /\ \E m \in Modes :
       pg = [mode |-> m, pages |-> [p \in 1..PoolPages |-> FreePage(0, 0)]]
NextPage == PgEquipment \/ PgConsumer \/ PgTransport
SpecPage == InitPage /\ [][NextPage]_vars

\* C2: a page is released once per acquisition, with no handle left, and is
\* not in the pool while a message part that references it is unacknowledged
C2_ReleasedOnceAfterLastUse ==
  \A p \in 1..PoolPages :
    LET page == pg.pages[p]
    IN /\ page.nRelease = page.nAcquire - (IF page.free THEN 0 ELSE 1)
       /\ page.free = (page.handles = 0)
       /\ page.free => page.parts = << >>

----------------------------------------------------------------------------
(* Accounting of the pages given to the transport: DataBlockFMQStats in the *)
(* userSpace of each block, and the counters of gReadoutStats               *)

StatBlocks == 2
\* the threads that format messages
Formatters == {1, 2}
MaxPartsPerBlock == 2
StatPageSize == 4
MaxStray == 2
\* payload bytes of a message part
PartSizes == {1, 2}

\* userSpace of a block that nobody initialised
NoStats ==
  [magic |-> FALSE, countRef |-> 0, dataSizeAccounted |-> 0,
   memorySizeAccounted |-> 0]

initDataBlockStats(v_memorySizeAccounted) ==
  [magic |-> TRUE, countRef |-> 0, dataSizeAccounted |-> 0,
   memorySizeAccounted |-> v_memorySizeAccounted]

\* a block in its pool: no thread works on it, no part references it
FreeBlock == [stats |-> NoStats, parts |-> 0, owner |-> 0]
IdleThread == [pc |-> "idle", b |-> 0, size |-> 0, first |-> FALSE]
IdleTransport == [pc |-> "idle", b |-> 0, last |-> FALSE]

\* the formats that account their pages: only DDformatMessage calls
\* initDataBlockStats and incDataBlockStats
Accounts(format) == format = "stfHbf"

\* (s->countRef++) == 0, and a test that takes every reference for the first
FirstReferenceAlways(s) == TRUE
FirstReference(s) == s.countRef = 0
\* (--s->countRef) == 0
LastReference(s) == s.countRef = 1

\* a thread starts on a block: a page of the dataset, the page of the STF
\* header, or a block for a copy (memory size 0 when it shares a page that
\* is accounted already)
FqTakeBlock(t, b) ==
  /\ fq.threads[t].pc = "idle"
  /\ fq.blocks[b].owner = 0 /\ fq.blocks[b].parts = 0
  /\ fq.transport.b # b
  /\ \E mem \in {0, StatPageSize} :
       fq' = [fq EXCEPT !.blocks[b].owner = t,
                        !.blocks[b].stats =
                           IF Accounts(fq.format) THEN initDataBlockStats(mem)
                           ELSE @]
  /\ UNCHANGED << eq, now, rq, fm, cx, pg, db >>

\* a message part over bytes of block b is made, with a handle as hint;
\* incDataBlockStats: countRef++ comes first
FqNewPart(t, b) ==
  /\ fq.threads[t].pc = "idle"
  /\ fq.blocks[b].owner = t /\ fq.blocks[b].parts < MaxPartsPerBlock
  /\ \E size \in PartSizes :
       fq' = IF Accounts(fq.format) /\ fq.blocks[b].stats.magic
             THEN [fq EXCEPT !.blocks[b].parts = @ + 1,
                             !.blocks[b].stats.countRef = @ + 1,
                             !.threads[t] =
                                [pc |-> "inc", b |-> b, size |-> size,
                                 first |-> FirstReference(fq.blocks[b].stats)]]
             ELSE [fq EXCEPT !.blocks[b].parts = @ + 1]
  /\ UNCHANGED << eq, now, rq, fm, cx, pg, db >>

\* incDataBlockStats: the counters follow
FqIncFinish(t) ==
  /\ fq.threads[t].pc = "inc"
  /\ LET b == fq.threads[t].b
         size == fq.threads[t].size
         first == fq.threads[t].first
     IN fq' = [fq EXCEPT
                 !.pagesPendingFairMQ = IF first THEN @ + 1 ELSE @,
                 !.ddMemoryPendingBytes =
                    IF first THEN @ + fq.blocks[b].stats.memorySizeAccounted ELSE @,
                 !.blocks[b].stats.dataSizeAccounted = @ + size,
                 !.ddPayloadPendingBytes = @ + size,
                 !.threads[t] = IdleThread]
  /\ UNCHANGED << eq, now, rq, fm, cx, pg, db >>

\* the message is sent and the dataset goes: the thread is done with its blocks
FqSend(t) ==
  /\ fq.threads[t].pc = "idle"
  /\ \E b \in 1..StatBlocks : fq.blocks[b].owner = t
  /\ fq' = [fq EXCEPT !.blocks =
              [b \in 1..StatBlocks |->
                 IF fq.blocks[b].owner = t THEN [fq.blocks[b] EXCEPT !.owner = 0]
                 ELSE fq.blocks[b]]]
  /\ UNCHANGED << eq, now, rq, fm, cx, pg, db >>

\* the cleanup callback of the region for a part of block b:
\* decDataBlockStats, --countRef comes first
FqAck(b) ==
  /\ fq.transport.pc = "idle"
  /\ fq.blocks[b].owner = 0 /\ fq.blocks[b].parts > 0
  /\ fq' = IF fq.blocks[b].stats.magic
           THEN [fq EXCEPT !.blocks[b].stats.countRef = @ - 1,
                           !.transport =
                              [pc |-> "dec", b |-> b,
                               last |-> LastReference(fq.blocks[b].stats)]]
           ELSE [fq EXCEPT !.blocks[b].parts = @ - 1]
  /\ UNCHANGED << eq, now, rq, fm, cx, pg, db >>

\* decDataBlockStats: the counters follow, then the handle is deleted
FqDecFinish ==
  /\ fq.transport.pc = "dec"
  /\ LET b == fq.transport.b
         last == fq.transport.last
         s == fq.blocks[b].stats
     IN fq' = [fq EXCEPT
                 !.pagesPendingFairMQ = IF last THEN @ - 1 ELSE @,
                 !.ddPayloadPendingBytes =
                    IF last THEN @ - s.dataSizeAccounted ELSE @,
                 !.ddMemoryPendingBytes =
                    IF last THEN @ - s.memorySizeAccounted ELSE @,
                 !.blocks[b].stats.magic = IF last THEN FALSE ELSE @,
                 !.blocks[b].parts = @ - 1,
                 !.transport = IdleTransport]
  /\ UNCHANGED << eq, now, rq, fm, cx, pg, db >>

\* no call of incDataBlockStats or decDataBlockStats is half way
StatsIdle ==
  /\ \A t \in Formatters : fq.threads[t].pc = "idle"
  /\ fq.transport.pc = "idle"

FqFormatter ==
  \E t \in Formatters :
    \/ \E b \in 1..StatBlocks : FqTakeBlock(t, b) \/ FqNewPart(t, b)
    \/ FqIncFinish(t)
    \/ FqSend(t)
FqTransport == (\E b \in 1..StatBlocks : FqAck(b)) \/ FqDecFinish

InitStats ==
  /\ now = 0 /\ db = Unused /\ eq = Unused /\ rq = Unused /\ fm = Unused /\ cx = Unused
  /\ pg = Unused
  /\ \E format \in {"stfHbf", "stfSuperpage"} :
       fq = [ format |-> format,
              blocks |-> [b \in 1..StatBlocks |-> FreeBlock],
              threads |-> [t \in Formatters |-> IdleThread],
              transport |-> IdleTransport,
              pagesPendingFairMQ |-> 0,
              ddPayloadPendingBytes |-> 0,
              ddMemoryPendingBytes |-> 0,
              nInitAgain |-> 0, nStray |-> 0 ]
NextStats == FqFormatter \/ FqTransport
SpecStats == InitStats /\ [][NextStats]_vars

\* The three functions called on a block in any state.
\* initDataBlockStats on a block that is initialised and referenced
FqInitAgain(b) ==
  /\ fq.nInitAgain + fq.nStray < MaxStray
  /\ StatsIdle
  /\ fq.blocks[b].stats.magic /\ fq.blocks[b].stats.countRef > 0
  /\ \E mem \in {0, StatPageSize} :
       fq' = [fq EXCEPT !.blocks[b].stats = initDataBlockStats(mem),
                        !.nInitAgain = @ + 1]
  /\ UNCHANGED << eq, now, rq, fm, cx, pg, db >>

\* incDataBlockStats and decDataBlockStats on a block whose magic is cleared:
\* both return at the test of the magic
FqStrayInc(b) ==
  /\ fq.nInitAgain + fq.nStray < MaxStray
  /\ StatsIdle
  /\ Accounts(fq.format) /\ ~fq.blocks[b].stats.magic
  /\ fq' = [fq EXCEPT !.nStray = @ + 1]
  /\ UNCHANGED << eq, now, rq, fm, cx, pg, db >>
FqStrayDec(b) ==
  /\ fq.nInitAgain + fq.nStray < MaxStray
  /\ StatsIdle
  /\ Accounts(fq.format) /\ ~fq.blocks[b].stats.magic
  /\ fq' = [fq EXCEPT !.nStray = @ + 1]
  /\ UNCHANGED << eq, now, rq, fm, cx, pg, db >>

FqAnyCall == \E b \in 1..StatBlocks : FqInitAgain(b) \/ FqStrayInc(b) \/ FqStrayDec(b)
NextMagic == NextStats \/ FqAnyCall
SpecMagic == InitStats /\ [][NextMagic]_vars

StatsAtRest == StatsIdle

\* the blocks that have a message part not yet acknowledged
BlocksInFlight == { b \in 1..StatBlocks : fq.blocks[b].parts > 0 }

RECURSIVE PayloadAccounted(_)
PayloadAccounted(S) ==
  IF S = {} THEN 0
  ELSE LET b == CHOOSE x \in S : TRUE
       IN fq.blocks[b].stats.dataSizeAccounted + PayloadAccounted(S \ {b})
RECURSIVE MemoryAccounted(_)
MemoryAccounted(S) ==
  IF S = {} THEN 0
  ELSE LET b == CHOOSE x \in S : TRUE
       IN fq.blocks[b].stats.memorySizeAccounted + MemoryAccounted(S \ {b})

\* the counters tell the blocks in flight, their payload and their memory
CountersMatchBlocksInFlight ==
  /\ \A b \in 1..StatBlocks :
       (fq.blocks[b].parts > 0) <=> (fq.blocks[b].stats.countRef > 0)
  /\ fq.pagesPendingFairMQ = Cardinality(BlocksInFlight)
  /\ fq.ddPayloadPendingBytes = PayloadAccounted(BlocksInFlight)
  /\ fq.ddMemoryPendingBytes = MemoryAccounted(BlocksInFlight)

StatsOf(f) ==
  << [b \in 1..StatBlocks |-> f.blocks[b].stats], f.pagesPendingFairMQ,
     f.ddPayloadPendingBytes, f.ddMemoryPendingBytes >>

\* C23: the magic guards both ways: initialising a block that is initialised
\* and still referenced leaves its count and its accounted sizes as they
\* were, and an increment or decrement on a block whose magic is cleared
\* changes neither the block nor a counter
C23_MagicGuardsStep ==
  /\ fq.nInitAgain' = fq.nInitAgain + 1 =>
       \A b \in 1..StatBlocks :
         /\ fq.blocks[b].stats.countRef' = fq.blocks[b].stats.countRef
         /\ fq.blocks[b].stats.dataSizeAccounted'
              = fq.blocks[b].stats.dataSizeAccounted
         /\ fq.blocks[b].stats.memorySizeAccounted'
              = fq.blocks[b].stats.memorySizeAccounted
  /\ fq.nStray' = fq.nStray + 1 => StatsOf(fq)' = StatsOf(fq)
C23_MagicGuardsBothWays == [][C23_MagicGuardsStep]_vars

\* the half of it about the cleared magic
StrayCallsChangeNothing ==
  [][fq.nStray' = fq.nStray + 1 => StatsOf(fq)' = StatsOf(fq)]_vars

----------------------------------------------------------------------------
(* ReadoutDatabase::query: the statement is executed until mysql_query      *)
(* accepts it, maxRetry times at most                                       *)

MaxRetry == 3          \* largest maxRetry passed to query()
MaxQueries == 3        \* calls of query() on one ReadoutDatabase

NoError == ""
QueryTruncated == "Query truncated"
DBQueryError == "DB query error :"

\* a ReadoutDatabase after its constructor; attempts and succeeded count the
\* calls of mysql_query of the current query() and those that returned 0
DbCreated ==
  [ pc |-> "idle", lastError |-> NoError, maxRetry |-> 0, i |-> 0, ret |-> 0,
    asked |-> 0, attempts |-> 0, succeeded |-> 0, nQueries |-> 0 ]

\* if (maxRetry <= 0) maxRetry = 1
Retries(maxRetry) == IF maxRetry <= 0 THEN 1 ELSE maxRetry

\* query(maxRetry, ...) up to the loop: the error of the last call is
\* cleared, and a statement that does not fit the buffer is refused
DbQuery ==
  /\ db.pc \in {"idle", "returned"} /\ db.nQueries < MaxQueries
  /\ \E maxRetry \in -1..MaxRetry, tooLong \in BOOLEAN :
       db' = IF tooLong
             THEN [db EXCEPT !.pc = "returned", !.lastError = QueryTruncated,
                             !.ret = -1, !.asked = maxRetry, !.attempts = 0,
                             !.succeeded = 0, !.nQueries = @ + 1]
             ELSE [db EXCEPT !.pc = "loop", !.lastError = NoError,
                             !.maxRetry = Retries(maxRetry), !.i = 1,
                             !.asked = maxRetry, !.attempts = 0,
                             !.succeeded = 0, !.nQueries = @ + 1]
  /\ UNCHANGED << eq, now, rq, fm, cx, pg, fq >>

\* one turn of the loop: mysql_query accepts the statement or not
DbAttempt ==
  /\ db.pc = "loop" /\ db.i <= db.maxRetry
  /\ \E accepted \in BOOLEAN :
       db' = IF accepted
             THEN [db EXCEPT !.pc = "returned", !.ret = 0,
                             !.attempts = @ + 1, !.succeeded = @ + 1]
             ELSE [db EXCEPT !.lastError = DBQueryError, !.i = @ + 1,
                             !.attempts = @ + 1]
  /\ UNCHANGED << eq, now, rq, fm, cx, pg, fq >>

\* the loop has run out: if (i > maxRetry) return -1
DbGiveUp ==
  /\ db.pc = "loop" /\ db.i > db.maxRetry
  /\ db' = [db EXCEPT !.pc = "returned", !.ret = -1]
  /\ UNCHANGED << eq, now, rq, fm, cx, pg, fq >>

\* getError()
getError(d) == d.lastError

InitDb ==
  /\ now = 0 /\ fq = Unused /\ eq = Unused /\ rq = Unused /\ fm = Unused
  /\ cx = Unused /\ pg = Unused
  /\ db = DbCreated
NextDb == DbQuery \/ DbAttempt \/ DbGiveUp
SpecDb == InitDb /\ [][NextDb]_vars

\* C40: query makes at most max(1, maxRetry) attempts and none after one that
\* succeeded, returns 0 exactly when an attempt succeeded and -1 exactly when
\* every attempt failed, and after a return of 0 getError() is empty
C40_QueryRetriesAndError ==
  /\ db.attempts <= (IF db.asked > 1 THEN db.asked ELSE 1)
  /\ db.succeeded <= 1
  /\ db.pc = "loop" => db.succeeded = 0
  /\ db.pc = "returned" =>
       /\ db.ret = 0 <=> db.succeeded = 1
       /\ db.ret = -1 <=> db.succeeded = 0
       /\ db.ret = 0 => getError(db) = NoError

\* the same without the error message: the attempts and the value returned
QueryRetriesAndResult ==
  /\ db.attempts <= (IF db.asked > 1 THEN db.asked ELSE 1)
  /\ db.succeeded <= 1
  /\ db.pc = "loop" => db.succeeded = 0
  /\ db.pc = "returned" =>
       /\ db.ret = 0 <=> db.succeeded = 1
       /\ db.ret = -1 <=> db.succeeded = 0
       /\ (db.ret = 0 /\ db.attempts = 1) => getError(db) = NoError
       /\ (db.ret = 0 /\ db.attempts > 1) => getError(db) = DBQueryError
       /\ (db.ret = -1 /\ db.attempts = 0) => getError(db) = QueryTruncated

====
